---------------------------- MODULE Spec2Model ----------------------------
(***************************************************************************)
(* Model of the firewatch alert engine (the useAlerts hook) together with  *)
(* the geometry and action-classification helpers it calls, and of the     *)
(* feed hook (useFireEvents) with the hazard source client behind it.      *)
(*                                                                         *)
(* Spec runs useAlerts with props that arrive as they please; FairSpec is  *)
(* a small such run with a fair event loop; CapSpec runs the alert list at *)
(* its retention cap; FeedSpec runs useFireEvents against a source and     *)
(* hands its hazard arrays to useAlerts; FairFeedSpec adds a fair event    *)
(* loop to it; StopSpec adds the unmount of the component.  RetrySpec      *)
(* follows one call of fetchWithRetry attempt by attempt (FairRetrySpec    *)
(* with every request settling and the timer firing); PureSpec applies the *)
(* geometry, ranking, classification, area report and geometry extraction  *)
(* functions to drawn arguments.                                           *)
(*                                                                         *)
(* The hook is modelled as React runs it: a change of a prop (the hazard   *)
(* set, the user location) or of the isReady state commits a render and    *)
(* queues the effects whose dependencies changed; the effects of one       *)
(* commit run one after the other, in declaration order, with nothing in   *)
(* between (variable `effects` is the position in that flush).  Timers     *)
(* (setTimeout) are kept in registration order in `timers`.                *)
(*                                                                         *)
(* Abstractions: the map is an integer kilometre grid and the great-circle *)
(* distance of turf is the taxicab distance on it; texts are tuples of     *)
(* one-character strings so that toLowerCase and includes are computed;    *)
(* an alert's id is a fresh counter value (the code derives it from the    *)
(* clock and a random suffix); the clock is the number of the render whose *)
(* effects called setTimeout, so that timers started by one render share   *)
(* an instant; an alert's message is not modelled.                         *)
(*                                                                         *)
(* Some variables are not state of the hooks: `ticks` counts the prop      *)
(* deliveries (it bounds a run), `replay` marks a delivery that repeats    *)
(* the props already evaluated, and `last` and `feedLast` record what the  *)
(* step that just ran found and did, so that properties of one evaluation  *)
(* are state predicates.  A fetch call is one step: the outcomes of its    *)
(* attempts are inputs and fetchWithRetry computes what the call returns.  *)
(***************************************************************************)
EXTENDS Integers, Sequences, FiniteSets, TLC

(***************************************************************************)
(* Bounds of the model.                                                    *)
(***************************************************************************)
\* the environment stops delivering inputs once this many alerts were scheduled
MaxAlerts == 2
\* number of prop deliveries (hazard sets and locations) in one run
MaxTicks == 3
\* number of poll ticks whose requests are in flight together
MaxInFlight == 2
\* length of the hazard lists the proximity functions are applied to
MaxHazards == 4
\* number of vertices of the rings distanceToPolygon is applied to
MaxRing == 3
\* number of words of the action texts getActionPriority is applied to
MaxWords == 3

(***************************************************************************)
(* Program constants.                                                      *)
(***************************************************************************)
DANGER_THRESHOLD == 5
CRITICAL_THRESHOLD == 2
AUTO_DISMISS_INFO == 30000
AUTO_DISMISS_WARNING == 60000
READY_DELAY == 500
EMIT_DELAY == 0
RETENTION == 50
RETRIES == 3

(***************************************************************************)
(* Texts: tuples of one-character strings.                                 *)
(***************************************************************************)
UpperLetters == <<"A","B","C","D","E","F","G","H","I","J","K","L","M",
                  "N","O","P","Q","R","S","T","U","V","W","X","Y","Z">>
LowerLetters == <<"a","b","c","d","e","f","g","h","i","j","k","l","m",
                  "n","o","p","q","r","s","t","u","v","w","x","y","z">>

toLowerCase(text) ==
    [i \in 1..Len(text) |->
        IF \E k \in 1..Len(UpperLetters) : UpperLetters[k] = text[i]
        THEN LowerLetters[CHOOSE k \in 1..Len(UpperLetters) : UpperLetters[k] = text[i]]
        ELSE text[i]]

includes(text, pat) ==
    \E s \in 0..(Len(text) - Len(pat)) :
        \A j \in 1..Len(pat) : text[s + j] = pat[j]

SHELTER == <<"s","h","e","l","t","e","r">>
LEAVE == <<"l","e","a","v","e">>
LEAVE_IMMEDIATELY == <<"l","e","a","v","e"," ","i","m","m","e","d","i","a","t","e","l","y">>

\* mutant of getActionPriority: "leave" is looked for before "leave immediately"
getActionPriority_LeaveFirst(action) ==
    IF action = <<>> THEN 0
    ELSE LET normalizedAction == toLowerCase(action) IN
         IF includes(normalizedAction, SHELTER) THEN 3
         ELSE IF includes(normalizedAction, LEAVE) THEN 1
         ELSE IF includes(normalizedAction, LEAVE_IMMEDIATELY) THEN 2
         ELSE 0

\* utils.ts getActionPriority: an absent or empty action is falsy
getActionPriority(action) ==
    IF action = <<>> THEN 0
    ELSE LET normalizedAction == toLowerCase(action) IN
         IF includes(normalizedAction, SHELTER) THEN 3
         ELSE IF includes(normalizedAction, LEAVE_IMMEDIATELY) THEN 2
         ELSE IF includes(normalizedAction, LEAVE) THEN 1
         ELSE 0

(***************************************************************************)
(* The hazards of the feed.  A hazard of the state is [id, updated]: one   *)
(* version of one hazard.  A version is immutable, so its action text and  *)
(* polygon are those the catalogue gives for (id, updated).                *)
(***************************************************************************)
HazardIds == {1, 2}

\* the `updated` values of the feed: two timestamps and the empty string (the
\* code only tests them for truthiness and for equality)
Fingerprints == {"", "t1", "t2"}

FeedRecords == [id : HazardIds, updated : Fingerprints]

LeaveImmediately == <<"L","e","a","v","e"," ","I","m","m","e","d","i","a","t","e","l","y">>
ShelterInPlace == <<"S","h","e","l","t","e","r"," ","I","n"," ","P","l","a","c","e">>
WatchAndAct == <<"W","a","t","c","h"," ","a","n","d"," ","A","c","t">>
LeaveNow == <<"L","e","a","v","e"," ","N","o","w">>

\* two hazards no feed of the runs carries; the functions are applied to them
\* on their own: a "Leave Now" warning whose polygon is a triangle, and a
\* warning whose polygon has two vertices only
Triangle == [id |-> 5, updated |-> "t1"]
Segment == [id |-> 6, updated |-> "t1"]

\* event.action; <<>> is an absent action.  Hazard 1 escalates from "Watch and
\* Act" (t1) to "Leave Immediately"; hazard 2 is "Shelter In Place" and loses
\* its action in version t2
ActionOf(e) ==
    CASE e.id = 1 /\ e.updated = "t1" -> WatchAndAct
      [] e.id = 1 -> LeaveImmediately
      [] e.id = 2 /\ e.updated = "t2" -> <<>>
      [] e = Triangle -> LeaveNow
      [] OTHER -> ShelterInPlace

\* event.polygon: open rings (no repeated first vertex); <<>> is an absent
\* polygon, which the version of hazard 2 without a timestamp has
PolygonOf(e) ==
    CASE e.id = 1 -> << <<0,0>>, <<2,0>>, <<2,2>>, <<0,2>> >>
      [] e.id = 2 /\ e.updated # "" -> << <<10,0>>, <<12,0>>, <<12,2>>, <<10,2>> >>
      [] e = Triangle -> << <<2,0>>, <<8,0>>, <<5,4>> >>
      [] e = Segment -> << <<5,1>>, <<7,1>> >>
      [] OTHER -> <<>>

\* what Map.get returns for a key the map does not hold
Undefined == "<undefined>"

\* the positions the tracked subject can report
Locations == { <<1,1>>, <<3,1>>, <<6,1>>, <<11,1>> }


(***************************************************************************)
(* Geometry kernel (geo-utils).  Points are <<x, y>> in kilometres.        *)
(***************************************************************************)
Abs(n) == IF n < 0 THEN -n ELSE n

\* turf distance(point(from), point(to)) on the kilometre grid
calculateDistance(from, to) == Abs(from[1] - to[1]) + Abs(from[2] - to[2])

\* the ring with its first vertex appended when it is not closed yet
closedCoords(polygonCoords) ==
    IF polygonCoords[1] # polygonCoords[Len(polygonCoords)]
    THEN Append(polygonCoords, polygonCoords[1])
    ELSE polygonCoords

\* p lies on the segment a-b
OnSegment(p, a, b) ==
    /\ (b[1] - a[1]) * (p[2] - a[2]) = (b[2] - a[2]) * (p[1] - a[1])
    /\ p[1] >= (IF a[1] < b[1] THEN a[1] ELSE b[1])
    /\ p[1] <= (IF a[1] < b[1] THEN b[1] ELSE a[1])
    /\ p[2] >= (IF a[2] < b[2] THEN a[2] ELSE b[2])
    /\ p[2] <= (IF a[2] < b[2] THEN b[2] ELSE a[2])

\* the horizontal ray from p to the right crosses the edge a-b
RayCrosses(p, a, b) ==
    /\ (a[2] > p[2]) # (b[2] > p[2])
    /\ IF b[2] > a[2]
       THEN (p[1] - a[1]) * (b[2] - a[2]) < (b[1] - a[1]) * (p[2] - a[2])
       ELSE (p[1] - a[1]) * (b[2] - a[2]) > (b[1] - a[1]) * (p[2] - a[2])

\* turf booleanPointInPolygon on a closed ring: the boundary counts as inside
booleanPointInPolygon(p, ring) ==
    \/ \E i \in 1..(Len(ring) - 1) : OnSegment(p, ring[i], ring[i + 1])
    \/ Cardinality({i \in 1..(Len(ring) - 1) : RayCrosses(p, ring[i], ring[i + 1])}) % 2 = 1

\* turf polygon() throws on a ring of fewer than 4 positions; the catch gives false
isPointInPolygon(coords, polygonCoords) ==
    IF Len(polygonCoords) < 3 THEN FALSE
    ELSE LET closed == closedCoords(polygonCoords) IN
         IF Len(closed) < 4 THEN FALSE
         ELSE booleanPointInPolygon(coords, closed)

Infinity == 1000000

RECURSIVE MinVertexDistance(_, _, _, _)
MinVertexDistance(coords, polygonCoords, i, minDist) ==
    IF i > Len(polygonCoords) THEN minDist
    ELSE LET dist == calculateDistance(coords, polygonCoords[i]) IN
         MinVertexDistance(coords, polygonCoords, i + 1,
                           IF dist < minDist THEN dist ELSE minDist)

\* mutant of distanceToPolygon: the inside test is left out
distanceToPolygon_VerticesOnly(coords, polygonCoords) ==
    IF Len(polygonCoords) < 3 THEN Infinity
    ELSE MinVertexDistance(coords, polygonCoords, 1, Infinity)

distanceToPolygon(coords, polygonCoords) ==
    IF Len(polygonCoords) < 3 THEN Infinity
    ELSE IF isPointInPolygon(coords, polygonCoords) THEN 0
    ELSE MinVertexDistance(coords, polygonCoords, 1, Infinity)

(***************************************************************************)
(* Proximity engine (geo-utils).                                           *)
(***************************************************************************)
\* the ProximityResult of one event; `event` is the hazard's id
ProximityOf(location, e) ==
    LET isInside == isPointInPolygon(location, PolygonOf(e)) IN
    [ event |-> e.id,
      distance |-> IF isInside THEN 0 ELSE distanceToPolygon(location, PolygonOf(e)),
      isInside |-> isInside,
      actionPriority |-> getActionPriority(ActionOf(e)) ]

\* ProximityOf for every location and feed record (@@ makes TLC tabulate it once)
ProximityTable ==
    [location \in Locations, e \in FeedRecords \cup {Triangle, Segment} |->
        ProximityOf(location, e)] @@ <<>>

\* mutant of CompareProximity: the action priority is compared first
CompareProximity_PriorityFirst(a, b) ==
    IF a.actionPriority # b.actionPriority THEN b.actionPriority - a.actionPriority
    ELSE IF a.isInside # b.isInside THEN (IF a.isInside THEN -1 ELSE 1)
    ELSE a.distance - b.distance

\* the comparator of the sort: negative when a goes before b
CompareProximity(a, b) ==
    IF a.isInside # b.isInside THEN (IF a.isInside THEN -1 ELSE 1)
    ELSE IF a.actionPriority # b.actionPriority THEN b.actionPriority - a.actionPriority
    ELSE a.distance - b.distance

\* stable insertion of r into the sorted sequence s (Array.prototype.sort is stable)
RECURSIVE InsertSorted(_, _)
InsertSorted(s, r) ==
    IF s = <<>> THEN <<r>>
    ELSE IF CompareProximity(r, Head(s)) < 0 THEN <<r>> \o s
    ELSE <<Head(s)>> \o InsertSorted(Tail(s), r)

RECURSIVE SortProximity(_)
SortProximity(s) ==
    IF s = <<>> THEN <<>>
    ELSE InsertSorted(SortProximity(SubSeq(s, 1, Len(s) - 1)), s[Len(s)])

\* mutant of calculateProximity: a polygon needs more than 3 vertices
calculateProximity_FourVertices(location, evs) ==
    LET kept == SelectSeq(evs, LAMBDA e : Len(PolygonOf(e)) > 3)
        mapped == [i \in 1..Len(kept) |-> ProximityTable[location, kept[i]]]
    IN  SortProximity(mapped)

calculateProximity(location, evs) ==
    LET kept == SelectSeq(evs, LAMBDA e : Len(PolygonOf(e)) >= 3)
        mapped == [i \in 1..Len(kept) |-> ProximityTable[location, kept[i]]]
    IN  SortProximity(mapped)

\* the nearest danger as an option: <<>> is null, <<r>> is the result r
getNearestDanger(location, evs) ==
    LET proximity == calculateProximity(location, evs) IN
    IF Len(proximity) > 0 THEN <<proximity[1]>> ELSE <<>>

(***************************************************************************)
(* State of one useAlerts instance.                                        *)
(***************************************************************************)
VARIABLES
    events,            \* prop: the hazard set, a sequence of [id, updated]
    userLocation,      \* prop: <<>> (null) or a point <<x, y>>
    activeAlerts,      \* state: the alert list, newest first
    isReady,           \* state
    hasInitialized,    \* hasInitializedRef.current
    previousEvents,    \* previousEventsRef.current: a map id -> updated
    previousNearest,   \* previousNearestRef.current: <<>> (null) or <<snapshot>>
    timers,            \* pending setTimeout callbacks, in registration order
    effects,           \* effects of the current commit that have not run yet
    nextAlertId,       \* the id the next alert gets
    ticks,             \* number of prop deliveries so far
    replay,            \* the last delivery repeated the pair evaluated before it
    last               \* what the effect that ran last did

(***************************************************************************)
(* State of the useFireEvents instance that feeds it, and of the source.   *)
(***************************************************************************)
VARIABLES
    feedEvents,        \* state `events` of useFireEvents: the cached hazard set
    loading,           \* state
    error,             \* state: <<>> (null) or <<message>>
    lastHash,          \* state: <<>> (null) or <<token>>
    calls,             \* the pending awaits of init and checkForUpdates, oldest first
    source,            \* the position of the hazard source in SourceHistory
    feedLast,          \* what the step of the feed hook that ran last did
    mounted            \* the component that calls the hooks is mounted

feedVars == <<feedEvents, loading, error, lastHash, calls, source, feedLast, mounted>>

(***************************************************************************)
(* State of one call of fetchWithRetry, attempt by attempt.                *)
(***************************************************************************)
VARIABLES
    fetchPhase,        \* "idle", "fetching", "sleeping", "returned" or "thrown"
    fetchIndex,        \* the loop variable i
    fetchClock,        \* the time in milliseconds since the call
    fetchWake,         \* <<>> or <<the time the pending setTimeout is due>>
    fetchLog,          \* the attempts so far: when sent, and how settled
    fetchResult        \* <<>> or <<what the call returned or threw>>

retryVars == <<fetchPhase, fetchIndex, fetchClock, fetchWake, fetchLog, fetchResult>>

(***************************************************************************)
(* One application of a pure function: its arguments and what it returned. *)
(***************************************************************************)
VARIABLES
    arg,               \* the function applied and the arguments drawn for it
    ret                \* <<>> or <<the value returned>>

pureVars == <<arg, ret>>

vars == <<events, userLocation, activeAlerts, isReady, hasInitialized,
          previousEvents, previousNearest, timers, effects, nextAlertId,
          ticks, replay, last, feedVars, retryVars, pureVars>>

\* Map.get and Map.set of previousEventsRef.current
MapGet(m, k) == IF k \in DOMAIN m THEN m[k] ELSE Undefined
MapSet(m, k, v) == [x \in (DOMAIN m) \cup {k} |-> IF x = k THEN v ELSE m[x]]

\* JavaScript truthiness of a Map.get result: undefined and "" are falsy
Falsy(v) == v = Undefined \/ v = ""

\* a pending setTimeout: `at` is the instant of the call (the number of the
\* render whose effects made it, or the instant of the timer whose callback did)
EmitTimer(alert) ==
    [kind |-> "emit", delay |-> EMIT_DELAY, alert |-> <<alert>>, id |-> 0, at |-> ticks]
ReadyTimer ==
    [kind |-> "ready", delay |-> READY_DELAY, alert |-> <<>>, id |-> 0, at |-> ticks]
DismissTimer(id, delay, at) ==
    [kind |-> "dismiss", delay |-> delay, alert |-> <<>>, id |-> id, at |-> at]

\* setTimeout(() => addAlert(a), 0) for each alert of the sequence
Schedule(alerts) == [i \in 1..Len(alerts) |-> EmitTimer(alerts[i])]

\* timer j is due before timer i: it was registered earlier with a delay that
\* is not longer, or at the same instant with a shorter delay
DueBefore(j, i) ==
    \/ j < i /\ timers[j].delay <= timers[i].delay
    \/ timers[j].at = timers[i].at /\ timers[j].delay < timers[i].delay

\* the event loop runs a timer only when no pending timer is due before it
CanFire(i) == \A j \in 1..Len(timers) : j # i => ~DueBefore(j, i)

RemoveAt(s, i) == SubSeq(s, 1, i - 1) \o SubSeq(s, i + 1, Len(s))

\* `last` describes the effect that ran in the step leading to the state; any other
\* step resets it
NoLast == [effect |-> "none", ran |-> FALSE, replay |-> FALSE, previousEvents |-> <<>>,
           previousNearest |-> <<>>, scheduled |-> <<>>]

\* `feedLast` describes the step of the feed hook leading to the state: which
\* await resumed, whether its fetch succeeded, the token it fetched
NoFeedLast == [step |-> "none", ok |-> TRUE, fetched |-> ""]

\* the feed hook is left out: useAlerts gets its props from the environment
FeedParked ==
    /\ feedEvents = <<>>
    /\ loading = TRUE
    /\ error = <<>>
    /\ lastHash = <<>>
    /\ calls = <<>>
    /\ source = 1
    /\ feedLast = NoFeedLast
    /\ mounted = TRUE

FeedIdle ==
    UNCHANGED <<feedEvents, loading, error, lastHash, calls, source, feedLast, mounted>>

\* no call of the client is followed attempt by attempt and no function is
\* applied on its own
BenchParked ==
    /\ fetchPhase = "idle"
    /\ fetchIndex = 0
    /\ fetchClock = 0
    /\ fetchWake = <<>>
    /\ fetchLog = <<>>
    /\ fetchResult = <<>>
    /\ arg = [fn |-> "none"]
    /\ ret = <<>>

BenchIdle == UNCHANGED <<retryVars, pureVars>>

\* useAlerts after its first render
EngineInit ==
    /\ events = <<>>
    /\ userLocation = <<>>
    /\ activeAlerts = <<>>
    /\ isReady = FALSE
    /\ hasInitialized = FALSE
    /\ previousEvents = <<>>
    /\ previousNearest = <<>>
    /\ timers = <<>>
    /\ effects = <<>>
    /\ nextAlertId = 1
    /\ ticks = 0
    /\ replay = FALSE
    /\ last = NoLast

Init == EngineInit /\ FeedParked /\ BenchParked

(***************************************************************************)
(* The alert list: dismissAlert and addAlert.                              *)
(***************************************************************************)
\* mutant of SetDismissed: the alert is taken out of the list
SetDismissed_Remove(alerts, id) == SelectSeq(alerts, LAMBDA a : a.id # id)

SetDismissed(alerts, id) ==
    [i \in 1..Len(alerts) |->
        IF alerts[i].id = id THEN [alerts[i] EXCEPT !.dismissed = TRUE] ELSE alerts[i]]

\* dismissAlert(id), called by the consumer
dismissAlert(id) ==
    /\ effects = <<>>
    /\ activeAlerts' = SetDismissed(activeAlerts, id)
    /\ UNCHANGED <<events, userLocation, isReady, hasInitialized, previousEvents,
                   previousNearest, timers, effects, nextAlertId, ticks, replay>>
    /\ last' = NoLast

\* mutant of Prepend: the list is not cut
Prepend_NoCap(newAlert, prev) == <<newAlert>> \o prev

\* [newAlert, ...prev].slice(0, 50)
Prepend(newAlert, prev) ==
    LET all == <<newAlert>> \o prev IN
    SubSeq(all, 1, IF Len(all) < RETENTION THEN Len(all) ELSE RETENTION)

\* mutant of AutoDismiss: a critical alert gets the timer of an info alert
AutoDismiss_All(newAlert) ==
    <<DismissTimer(newAlert.id,
                   IF newAlert.severity = "warning"
                   THEN AUTO_DISMISS_WARNING ELSE AUTO_DISMISS_INFO,
                   newAlert.timestamp)>>

\* mutant of AutoDismiss: the two timeouts are swapped
AutoDismiss_Swapped(newAlert) ==
    IF newAlert.severity # "critical"
    THEN <<DismissTimer(newAlert.id,
                        IF newAlert.severity = "warning"
                        THEN AUTO_DISMISS_INFO ELSE AUTO_DISMISS_WARNING,
                        newAlert.timestamp)>>
    ELSE <<>>

\* the auto-dismiss timer addAlert registers for the alert
AutoDismiss(newAlert) ==
    IF newAlert.severity # "critical"
    THEN <<DismissTimer(newAlert.id,
                        IF newAlert.severity = "warning"
                        THEN AUTO_DISMISS_WARNING ELSE AUTO_DISMISS_INFO,
                        newAlert.timestamp)>>
    ELSE <<>>

\* the emission timer i fires: addAlert(alert)
addAlert(i) ==
    /\ effects = <<>>
    /\ timers[i].kind = "emit"
    /\ CanFire(i)
    /\ LET alert == timers[i].alert[1]
           newAlert == [id |-> nextAlertId, type |-> alert.type,
                        severity |-> alert.severity, title |-> alert.title,
                        eventId |-> alert.eventId, timestamp |-> timers[i].at,
                        dismissed |-> FALSE]
       IN  /\ activeAlerts' = Prepend(newAlert, activeAlerts)
           /\ timers' = RemoveAt(timers, i) \o AutoDismiss(newAlert)
    /\ nextAlertId' = nextAlertId + 1
    /\ UNCHANGED <<events, userLocation, isReady, hasInitialized, previousEvents,
                   previousNearest, effects, ticks, replay>>
    /\ last' = NoLast

\* the auto-dismiss timer i fires
AutoDismissFires(i) ==
    /\ effects = <<>>
    /\ timers[i].kind = "dismiss"
    /\ CanFire(i)
    /\ activeAlerts' = SetDismissed(activeAlerts, timers[i].id)
    /\ timers' = RemoveAt(timers, i)
    /\ UNCHANGED <<events, userLocation, isReady, hasInitialized, previousEvents,
                   previousNearest, effects, nextAlertId, ticks, replay>>
    /\ last' = NoLast

\* mutant of undismissedAlerts: the list is handed out as it is
undismissedAlerts_All == activeAlerts

\* const undismissedAlerts = activeAlerts.filter(a => !a.dismissed)
undismissedAlerts == SelectSeq(activeAlerts, LAMBDA a : ~a.dismissed)

(***************************************************************************)
(* The one-time initialization effect.                                     *)
(***************************************************************************)
\* the snapshot stored in previousNearestRef for a nearest danger
Snapshot(nearestDanger) ==
    [eventId |-> nearestDanger.event, distance |-> nearestDanger.distance,
     isInside |-> nearestDanger.isInside]

\* events.forEach(event => previousEventsRef.current.set(event.id, event.updated))
RECURSIVE SeedEvents(_, _)
SeedEvents(m, evs) ==
    IF evs = <<>> THEN m
    ELSE SeedEvents(MapSet(m, Head(evs).id, Head(evs).updated), Tail(evs))

\* the nearest snapshot the initialization effect leaves in previousNearestRef
SeedNearest(prev, location, evs) ==
    IF location # <<>>
    THEN LET nearestDanger == getNearestDanger(location, evs) IN
         IF nearestDanger # <<>> THEN <<Snapshot(nearestDanger[1])>> ELSE prev
    ELSE prev

\* mutant of InitSkips: the effect forgets that it ran before
InitSkips_EmptyOnly == Len(events) = 0

\* the early return of the initialization effect
InitSkips == hasInitialized \/ Len(events) = 0

InitEffect ==
    /\ effects # <<>> /\ Head(effects) = "init"
    /\ effects' = Tail(effects)
    /\ replay' = (replay /\ Tail(effects) # <<>>)
    /\ IF InitSkips
       THEN /\ UNCHANGED <<previousEvents, previousNearest, hasInitialized, timers>>
            /\ last' = [NoLast EXCEPT !.effect = "init", !.replay = replay]
       ELSE /\ previousEvents' = SeedEvents(previousEvents, events)
            /\ previousNearest' = SeedNearest(previousNearest, userLocation, events)
            /\ hasInitialized' = TRUE
            /\ timers' = Append(timers, ReadyTimer)
            /\ last' = [effect |-> "init", ran |-> TRUE, replay |-> replay,
                        previousEvents |-> previousEvents,
                        previousNearest |-> previousNearest, scheduled |-> <<>>]
    /\ UNCHANGED <<events, userLocation, activeAlerts, isReady, nextAlertId,
                   ticks>>

(***************************************************************************)
(* The change-detection effect.                                            *)
(***************************************************************************)
NewWarning(event, action) ==
    [type |-> "new-warning",
     severity |-> IF includes(action, SHELTER) THEN "critical" ELSE "warning",
     title |-> IF includes(action, SHELTER)
               THEN "New Shelter In Place Warning" ELSE "New Evacuation Warning",
     eventId |-> event.id]

ZoneChange(event) ==
    [type |-> "zone-change", severity |-> "info", title |-> "Warning Updated",
     eventId |-> event.id]

\* event.action?.toLowerCase() || '' for every feed record, tabulated once
LowerAction == [e \in FeedRecords |-> toLowerCase(ActionOf(e))] @@ <<>>

\* mutant of ChangeAlerts: the action text is searched without lower-casing it
ChangeAlerts_CaseSensitive(prevUpdated, event) ==
    IF Falsy(prevUpdated)
    THEN LET action == ActionOf(event) IN
         IF includes(action, SHELTER) \/ includes(action, LEAVE)
         THEN <<NewWarning(event, action)>>
         ELSE <<>>
    ELSE IF prevUpdated # event.updated
    THEN <<ZoneChange(event)>>
    ELSE <<>>

\* the alerts the forEach body schedules for one event, given what the map holds
ChangeAlerts(prevUpdated, event) ==
    IF Falsy(prevUpdated)
    THEN LET action == LowerAction[event] IN
         IF includes(action, SHELTER) \/ includes(action, LEAVE)
         THEN <<NewWarning(event, action)>>
         ELSE <<>>
    ELSE IF prevUpdated # event.updated
    THEN <<ZoneChange(event)>>
    ELSE <<>>

\* mutant of Remember: only an id the map does not hold yet is written
Remember_OnlyNew(m, event) ==
    IF event.id \in DOMAIN m THEN m ELSE MapSet(m, event.id, event.updated)

\* what the forEach body writes to the map for one event
Remember(m, event) == MapSet(m, event.id, event.updated)

\* events.forEach(...): the map and the alerts scheduled, event by event
RECURSIVE ChangeDetection(_, _)
ChangeDetection(m, evs) ==
    IF evs = <<>> THEN [memory |-> m, scheduled |-> <<>>]
    ELSE LET event == Head(evs)
             alerts == ChangeAlerts(MapGet(m, event.id), event)
             rest == ChangeDetection(Remember(m, event), Tail(evs))
         IN  [memory |-> rest.memory, scheduled |-> alerts \o rest.scheduled]

\* mutant of ChangeActive: the effect does not wait for isReady
ChangeActive_Always == TRUE

\* the guard of the change-detection effect
ChangeActive == isReady

ChangeDetectionEffect ==
    /\ effects # <<>> /\ Head(effects) = "change"
    /\ effects' = Tail(effects)
    /\ replay' = (replay /\ Tail(effects) # <<>>)
    /\ IF ~ChangeActive
       THEN /\ UNCHANGED <<previousEvents, timers>>
            /\ last' = [NoLast EXCEPT !.effect = "change", !.replay = replay]
       ELSE LET r == ChangeDetection(previousEvents, events) IN
            /\ previousEvents' = r.memory
            /\ timers' = timers \o Schedule(r.scheduled)
            /\ last' = [effect |-> "change", ran |-> TRUE, replay |-> replay,
                        previousEvents |-> previousEvents,
                        previousNearest |-> <<>>,
                        scheduled |-> r.scheduled]
    /\ UNCHANGED <<events, userLocation, activeAlerts, isReady, hasInitialized,
                   previousNearest, nextAlertId, ticks>>

(***************************************************************************)
(* The proximity effect.  prev is <<>> (null) or <<snapshot>>.             *)
(***************************************************************************)
\* mutant of enteredZone: level-triggered, the stored snapshot is not consulted
enteredZone_Level(nearestDanger, prev) == nearestDanger.isInside

enteredZone(nearestDanger, prev) ==
    nearestDanger.isInside /\ ~(prev # <<>> /\ prev[1].isInside)

\* mutant of crossedCritical: level-triggered, the stored distance is not consulted
crossedCritical_Level(nearestDanger, prev) ==
    nearestDanger.distance <= CRITICAL_THRESHOLD

\* (prev?.distance ?? Infinity) > CRITICAL_THRESHOLD
crossedCritical(nearestDanger, prev) ==
    /\ nearestDanger.distance <= CRITICAL_THRESHOLD
    /\ (IF prev # <<>> THEN prev[1].distance ELSE Infinity) > CRITICAL_THRESHOLD

\* mutant of eventChanged: no change is seen while no snapshot is stored
eventChanged_NeedsPrev(nearestDanger, prev) ==
    prev # <<>> /\ prev[1].eventId # nearestDanger.event

\* prev?.eventId !== nearestDanger.event.id
eventChanged(nearestDanger, prev) ==
    prev = <<>> \/ prev[1].eventId # nearestDanger.event

EnteredZoneAlert(nearestDanger) ==
    [type |-> "proximity", severity |-> "critical", title |-> "YOU ARE IN A DANGER ZONE",
     eventId |-> nearestDanger.event]

CrossedCriticalAlert(nearestDanger) ==
    [type |-> "proximity", severity |-> "critical", title |-> "Danger Zone Very Close",
     eventId |-> nearestDanger.event]

NewNearbyAlert(nearestDanger) ==
    [type |-> "proximity", severity |-> "warning", title |-> "New Nearby Warning",
     eventId |-> nearestDanger.event]

\* mutant of ProximityAlerts: three independent ifs in place of the else-if chain
ProximityAlerts_Independent(nearestDanger, prev) ==
    (IF enteredZone(nearestDanger, prev)
     THEN <<EnteredZoneAlert(nearestDanger)>> ELSE <<>>)
    \o (IF crossedCritical(nearestDanger, prev) /\ ~nearestDanger.isInside
        THEN <<CrossedCriticalAlert(nearestDanger)>> ELSE <<>>)
    \o (IF eventChanged(nearestDanger, prev) /\ nearestDanger.distance <= DANGER_THRESHOLD
        THEN <<NewNearbyAlert(nearestDanger)>> ELSE <<>>)

\* the if / else if chain of the proximity effect
ProximityAlerts(nearestDanger, prev) ==
    IF enteredZone(nearestDanger, prev)
    THEN <<EnteredZoneAlert(nearestDanger)>>
    ELSE IF crossedCritical(nearestDanger, prev) /\ ~nearestDanger.isInside
    THEN <<CrossedCriticalAlert(nearestDanger)>>
    ELSE IF eventChanged(nearestDanger, prev) /\ nearestDanger.distance <= DANGER_THRESHOLD
    THEN <<NewNearbyAlert(nearestDanger)>>
    ELSE <<>>

\* mutant of NextNearest: the snapshot is stored only when an alert was scheduled
NextNearest_OnAlert(nearestDanger, prev) ==
    IF ProximityAlerts(nearestDanger, prev) # <<>> THEN <<Snapshot(nearestDanger)>> ELSE prev

\* what the proximity effect stores after its checks
NextNearest(nearestDanger, prev) == <<Snapshot(nearestDanger)>>

\* the guards of the proximity effect
ProximityActive ==
    /\ isReady /\ userLocation # <<>> /\ Len(events) # 0
    /\ getNearestDanger(userLocation, events) # <<>>

\* mutant of ProximityEffect: an inactive evaluation forgets the stored snapshot
ProximityEffect_ForgetsWhenInactive ==
    /\ effects # <<>> /\ Head(effects) = "proximity"
    /\ effects' = Tail(effects)
    /\ replay' = (replay /\ Tail(effects) # <<>>)
    /\ IF ~ProximityActive
       THEN /\ previousNearest' = <<>>
            /\ UNCHANGED timers
            /\ last' = [NoLast EXCEPT !.effect = "proximity", !.replay = replay]
       ELSE LET nearestDanger == getNearestDanger(userLocation, events)[1]
                alerts == ProximityAlerts(nearestDanger, previousNearest)
            IN  /\ timers' = timers \o Schedule(alerts)
                /\ previousNearest' = NextNearest(nearestDanger, previousNearest)
                /\ last' = [effect |-> "proximity", ran |-> TRUE, replay |-> replay,
                            previousEvents |-> <<>>,
                            previousNearest |-> previousNearest,
                            scheduled |-> alerts]
    /\ UNCHANGED <<events, userLocation, activeAlerts, isReady, hasInitialized,
                   previousEvents, nextAlertId, ticks>>

ProximityEffect ==
    /\ effects # <<>> /\ Head(effects) = "proximity"
    /\ effects' = Tail(effects)
    /\ replay' = (replay /\ Tail(effects) # <<>>)
    /\ IF ~ProximityActive
       THEN /\ UNCHANGED <<previousNearest, timers>>
            /\ last' = [NoLast EXCEPT !.effect = "proximity", !.replay = replay]
       ELSE LET nearestDanger == getNearestDanger(userLocation, events)[1]
                alerts == ProximityAlerts(nearestDanger, previousNearest)
            IN  /\ timers' = timers \o Schedule(alerts)
                /\ previousNearest' = NextNearest(nearestDanger, previousNearest)
                /\ last' = [effect |-> "proximity", ran |-> TRUE, replay |-> replay,
                            previousEvents |-> <<>>,
                            previousNearest |-> previousNearest,
                            scheduled |-> alerts]
    /\ UNCHANGED <<events, userLocation, activeAlerts, isReady, hasInitialized,
                   previousEvents, nextAlertId, ticks>>

(***************************************************************************)
(* Renders: new props from the feed and the geolocation watch, and the     *)
(* ready timer.                                                            *)
(***************************************************************************)
\* the hazards of a set in feed order (ascending id)
RECURSIVE InFeedOrder(_, _)
InFeedOrder(f, ids) ==
    IF ids = {} THEN <<>>
    ELSE LET id == CHOOSE x \in ids : \A y \in ids : x <= y IN
         <<[id |-> id, updated |-> f[id]]>> \o InFeedOrder(f, ids \ {id})

HazardSets ==
    { InFeedOrder(f, DOMAIN f) :
        f \in UNION { [S -> Fingerprints] : S \in SUBSET HazardIds } }

\* alerts scheduled or emitted so far
AlertsSoFar == (nextAlertId - 1) + Cardinality({i \in 1..Len(timers) : timers[i].kind = "emit"})

MayDeliver == effects = <<>> /\ ticks < MaxTicks /\ AlertsSoFar < MaxAlerts

\* the feed hook hands a new hazard array to useAlerts
SetEvents(evs) ==
    /\ MayDeliver
    /\ events' = evs
    /\ effects' = <<"init", "change", "proximity">>
    /\ ticks' = ticks + 1
    /\ replay' = (isReady /\ evs = events)
    /\ UNCHANGED <<userLocation, activeAlerts, isReady, hasInitialized, previousEvents,
                   previousNearest, timers, nextAlertId>>
    /\ last' = NoLast

\* the geolocation hook hands new coordinates to useAlerts
SetUserLocation(location) ==
    /\ MayDeliver
    /\ userLocation' = location
    /\ effects' = <<"init", "proximity">>
    /\ ticks' = ticks + 1
    /\ replay' = (isReady /\ location = userLocation)
    /\ UNCHANGED <<events, activeAlerts, isReady, hasInitialized, previousEvents,
                   previousNearest, timers, nextAlertId>>
    /\ last' = NoLast

\* setTimeout(() => setIsReady(true), 500) fires
ReadyFires(i) ==
    /\ effects = <<>>
    /\ timers[i].kind = "ready"
    /\ CanFire(i)
    /\ isReady' = TRUE
    /\ timers' = RemoveAt(timers, i)
    /\ effects' = <<"change", "proximity">>
    /\ replay' = FALSE
    /\ UNCHANGED <<events, userLocation, activeAlerts, hasInitialized, previousEvents,
                   previousNearest, nextAlertId, ticks>>
    /\ last' = NoLast

Next ==
    \/ \E evs \in HazardSets : SetEvents(evs) /\ FeedIdle /\ BenchIdle
    \/ \E location \in Locations : SetUserLocation(location) /\ FeedIdle /\ BenchIdle
    \/ \E i \in 1..Len(timers) : ReadyFires(i) /\ FeedIdle /\ BenchIdle
    \/ InitEffect /\ FeedIdle /\ BenchIdle
    \/ ChangeDetectionEffect /\ FeedIdle /\ BenchIdle
    \/ ProximityEffect /\ FeedIdle /\ BenchIdle
    \/ \E i \in 1..Len(timers) : addAlert(i) /\ FeedIdle /\ BenchIdle
    \/ \E i \in 1..Len(timers) : AutoDismissFires(i) /\ FeedIdle /\ BenchIdle
    \/ \E id \in 1..(nextAlertId - 1) : dismissAlert(id) /\ FeedIdle /\ BenchIdle

Spec == Init /\ [][Next]_vars

\* the event loop runs every pending effect and every timer that is due; props
\* arrive and the consumer dismisses as they please
Fairness ==
    /\ WF_vars(InitEffect /\ FeedIdle /\ BenchIdle)
    /\ WF_vars(ChangeDetectionEffect /\ FeedIdle /\ BenchIdle)
    /\ WF_vars(ProximityEffect /\ FeedIdle /\ BenchIdle)
    /\ WF_vars(\E i \in 1..Len(timers) : ReadyFires(i) /\ FeedIdle /\ BenchIdle)
    /\ WF_vars(\E i \in 1..Len(timers) : addAlert(i) /\ FeedIdle /\ BenchIdle)
    /\ WF_vars(\E i \in 1..Len(timers) : AutoDismissFires(i) /\ FeedIdle /\ BenchIdle)

\* the feed of the runs checked for liveness: hazard 2 alone, then both hazards
\* in two versions each; no location is reported
FairHazardSets ==
    { evs \in HazardSets :
        /\ \A i \in 1..Len(evs) : evs[i].updated # ""
        /\ \E i \in 1..Len(evs) : evs[i].id = 2
        /\ Len(evs) = 1 => evs[1].updated = "t1" }

FairNext ==
    \/ \E evs \in FairHazardSets : SetEvents(evs) /\ FeedIdle /\ BenchIdle
    \/ \E i \in 1..Len(timers) : ReadyFires(i) /\ FeedIdle /\ BenchIdle
    \/ InitEffect /\ FeedIdle /\ BenchIdle
    \/ ChangeDetectionEffect /\ FeedIdle /\ BenchIdle
    \/ ProximityEffect /\ FeedIdle /\ BenchIdle
    \/ \E i \in 1..Len(timers) : addAlert(i) /\ FeedIdle /\ BenchIdle
    \/ \E i \in 1..Len(timers) : AutoDismissFires(i) /\ FeedIdle /\ BenchIdle
    \/ \E id \in 1..(nextAlertId - 1) : dismissAlert(id) /\ FeedIdle /\ BenchIdle

FairSpec == Init /\ [][FairNext]_vars /\ Fairness

(***************************************************************************)
(* The alert list near its retention cap: a ready engine whose list holds  *)
(* a backlog of critical alerts nobody dismissed, with the emissions of    *)
(* one more evaluation pending.                                            *)
(***************************************************************************)
\* n undismissed critical alerts for hazard 2, newest first, with ids n..1
Backlog(n) ==
    [i \in 1..n |->
        [id |-> n + 1 - i, type |-> "new-warning", severity |-> "critical",
         title |-> "New Shelter In Place Warning", eventId |-> 2, timestamp |-> 0,
         dismissed |-> FALSE]]

\* the alerts an evaluation can schedule without a location
Schedulable ==
    { NewWarning([id |-> 2, updated |-> "t1"], LowerAction[[id |-> 2, updated |-> "t1"]]),
      NewWarning([id |-> 1, updated |-> "t2"], LowerAction[[id |-> 1, updated |-> "t2"]]),
      ZoneChange([id |-> 1, updated |-> "t2"]) }

\* the emissions pending after one evaluation: one to three alerts
PendingEmissions == UNION { [1..n -> Schedulable] : n \in 1..3 }

CapInit ==
    /\ events = <<>>
    /\ userLocation = <<>>
    /\ isReady = TRUE
    /\ hasInitialized = TRUE
    /\ previousEvents = MapSet(MapSet(<<>>, 1, "t2"), 2, "t1")
    /\ previousNearest = <<>>
    /\ effects = <<>>
    /\ ticks = MaxTicks
    /\ replay = FALSE
    /\ last = NoLast
    /\ \E n \in (RETENTION - 2)..RETENTION :
          /\ activeAlerts = Backlog(n)
          /\ nextAlertId = n + 1
    /\ \E alerts \in PendingEmissions : timers = Schedule(alerts)
    /\ FeedParked
    /\ BenchParked

\* the ids the consumer dismisses: the oldest alert, the alert at the cap, the
\* newest alert, and an id no alert has
DismissedIds == {1, RETENTION, nextAlertId - 1, nextAlertId}

CapNext ==
    \/ \E i \in 1..Len(timers) : addAlert(i) /\ FeedIdle /\ BenchIdle
    \/ \E i \in 1..Len(timers) : AutoDismissFires(i) /\ FeedIdle /\ BenchIdle
    \/ \E id \in DismissedIds : dismissAlert(id) /\ FeedIdle /\ BenchIdle

CapSpec == CapInit /\ [][CapNext]_vars

(***************************************************************************)
(* The hazard source client (VICEmergencyAPI) and the source.              *)
(***************************************************************************)
\* the outcomes of the attempts of one call: TRUE is a response with ok set,
\* FALSE a network error or a response without it
Outcomes == [1..RETRIES -> BOOLEAN]

\* fetchWithRetry from loop index i on: whether it returns a response, and the
\* number of attempts it made
RECURSIVE fetchWithRetry(_, _)
fetchWithRetry(outcomes, i) ==
    IF i >= RETRIES THEN [ok |-> FALSE, attempts |-> i]
    ELSE IF outcomes[i + 1] THEN [ok |-> TRUE, attempts |-> i + 1]
    ELSE IF i = RETRIES - 1 THEN [ok |-> FALSE, attempts |-> i + 1]
    ELSE fetchWithRetry(outcomes, i + 1)

\* two records of the feed that are not fire warnings: a fire incident and a
\* flood warning
Incident == [id |-> 3, updated |-> "t1"]
Flood == [id |-> 4, updated |-> "t1"]

FeedTypeOf(e) == IF e = Incident THEN "incident" ELSE "warning"
CategoryOf(e) == IF e = Flood THEN "Flood" ELSE "Fire"

\* the states the source goes through: the token of osom-delta.json and the
\* features of events-geojson.json
SourceHistory ==
    << [token |-> "v1", events |-> << [id |-> 2, updated |-> "t1"] >>],
       [token |-> "v2", events |-> << Incident, [id |-> 1, updated |-> "t2"],
                                      [id |-> 2, updated |-> "t1"] >>],
       [token |-> "v3", events |-> << [id |-> 1, updated |-> "t2"], Flood,
                                      [id |-> 2, updated |-> "t2"] >>] >>

\* what a successful getDelta and a successful getEvents return when the
\* source answers in its state s
getDelta(s) == SourceHistory[s].token
getEvents(s) == SourceHistory[s].events

\* the states the source can be in when it answers the request of call k: the
\* one in which the request was sent, the current one and those between
Answers(k) == calls[k].sent..source

(***************************************************************************)
(* The feed hook (useFireEvents).                                          *)
(***************************************************************************)
\* isFireRelated, on the category the catalogue gives the record
isFireRelated(e) == CategoryOf(e) = "Fire"

\* sortByPriority(a, b); every record of the catalogue has the same severity
sortByPriority(a, b) ==
    LET aPriority == getActionPriority(ActionOf(a))
        bPriority == getActionPriority(ActionOf(b))
    IN  IF aPriority # bPriority THEN bPriority - aPriority ELSE 0

RECURSIVE InsertByPriority(_, _)
InsertByPriority(s, e) ==
    IF s = <<>> THEN <<e>>
    ELSE IF sortByPriority(e, Head(s)) < 0 THEN <<e>> \o s
    ELSE <<Head(s)>> \o InsertByPriority(Tail(s), e)

RECURSIVE SortByPriority(_)
SortByPriority(s) ==
    IF s = <<>> THEN <<>>
    ELSE InsertByPriority(SortByPriority(SubSeq(s, 1, Len(s) - 1)), s[Len(s)])

fireEvents(evs) == SortByPriority(SelectSeq(evs, LAMBDA e : isFireRelated(e)))
fireWarnings(evs) == SelectSeq(fireEvents(evs), LAMBDA e : FeedTypeOf(e) = "warning")

\* useFireEvents after its first render: init() awaits getEvents
FeedMounted ==
    /\ feedEvents = <<>>
    /\ loading = TRUE
    /\ error = <<>>
    /\ lastHash = <<>>
    /\ calls = <<[kind |-> "init", seen |-> "", delta |-> <<>>, sent |-> 1]>>
    /\ source = 1
    /\ feedLast = NoFeedLast
    /\ mounted = TRUE

FeedInit == EngineInit /\ FeedMounted /\ BenchParked

\* a step of the feed hook that hands no new hazard array to useAlerts
EngineIdle ==
    /\ last' = NoLast
    /\ UNCHANGED <<events, userLocation, activeAlerts, isReady, hasInitialized,
                   previousEvents, previousNearest, timers, effects, nextAlertId,
                   ticks, replay>>

\* a step of useAlerts or of its consumer in a run with the feed hook
EngineStep ==
    /\ feedLast' = NoFeedLast
    /\ UNCHANGED <<feedEvents, loading, error, lastHash, calls, source, mounted>>

\* JavaScript truthiness of lastHash: null and "" are falsy
HashSet(h) == h # <<>> /\ h[1] # ""

\* mutant of CachedEvents: a failed fetch empties the cache
CachedEvents_ClearOnError(r, newEvents) == IF r.ok THEN newEvents ELSE <<>>

\* the cached hazard set after `setEvents(await getEvents())` in a try block;
\* React drops the state update of a component that is not mounted
CachedEvents(r, newEvents) == IF r.ok /\ mounted THEN newEvents ELSE feedEvents

\* init(): the await of getEvents resumes
InitLoad(k, outcomes) ==
    /\ effects = <<>>
    /\ calls[k].kind = "init"
    /\ \E s \in Answers(k) :
       LET r == fetchWithRetry(outcomes, 0) IN
       /\ feedEvents' = CachedEvents(r, getEvents(s))
       /\ loading' = IF mounted THEN FALSE ELSE loading
       /\ feedLast' = [step |-> "init", ok |-> r.ok, fetched |-> ""]
       /\ IF r.ok
          THEN /\ IF mounted THEN SetEvents(fireWarnings(getEvents(s))) ELSE EngineIdle
               /\ calls' = [calls EXCEPT ![k].kind = "initDelta", ![k].sent = source]
               /\ UNCHANGED error
          ELSE /\ EngineIdle
               /\ calls' = RemoveAt(calls, k)
               /\ error' = IF mounted THEN <<"Failed to fetch events">> ELSE error
    /\ UNCHANGED <<lastHash, source, mounted>>

\* init(): getDelta().then(delta => setLastHash(delta.lastHash)).catch(() => {})
InitDelta(k, outcomes) ==
    /\ effects = <<>>
    /\ calls[k].kind = "initDelta"
    /\ \E s \in Answers(k) :
       LET r == fetchWithRetry(outcomes, 0) IN
       /\ lastHash' = IF r.ok /\ mounted THEN <<getDelta(s)>> ELSE lastHash
       /\ feedLast' = [step |-> "initDelta", ok |-> r.ok,
                       fetched |-> IF r.ok THEN getDelta(s) ELSE ""]
    /\ calls' = RemoveAt(calls, k)
    /\ EngineIdle
    /\ UNCHANGED <<feedEvents, loading, error, source, mounted>>

TicksInFlight ==
    Cardinality({k \in 1..Len(calls) : calls[k].kind \in {"tickDelta", "tickEvents"}})

\* the interval of the poll effect fires: checkForUpdates starts and awaits
\* getDelta; `seen` is the lastHash its closure holds and `delta` its local
\* of that name, not assigned yet.  The cleanup of the effect has cleared the
\* interval of a component that is not mounted
PollTick ==
    /\ effects = <<>>
    /\ mounted
    /\ HashSet(lastHash)
    /\ TicksInFlight < MaxInFlight
    /\ calls' = Append(calls, [kind |-> "tickDelta", seen |-> lastHash[1], delta |-> <<>>,
                             sent |-> source])
    /\ feedLast' = [step |-> "poll", ok |-> TRUE, fetched |-> ""]
    /\ EngineIdle
    /\ UNCHANGED <<feedEvents, loading, error, lastHash, source, mounted>>

\* checkForUpdates: the await of getDelta resumes
TickDelta(k, outcomes) ==
    /\ effects = <<>>
    /\ calls[k].kind = "tickDelta"
    /\ \E s \in Answers(k) :
       LET r == fetchWithRetry(outcomes, 0) IN
       /\ feedLast' = [step |-> "tickDelta", ok |-> r.ok,
                       fetched |-> IF r.ok THEN getDelta(s) ELSE ""]
       /\ IF r.ok /\ getDelta(s) # calls[k].seen
          THEN /\ lastHash' = IF mounted THEN <<getDelta(s)>> ELSE lastHash
               /\ calls' = [calls EXCEPT ![k].kind = "tickEvents",
                                         ![k].delta = <<getDelta(s)>>,
                                         ![k].sent = source]
          ELSE /\ UNCHANGED lastHash
               /\ calls' = RemoveAt(calls, k)
    /\ EngineIdle
    /\ UNCHANGED <<feedEvents, loading, error, source, mounted>>

\* checkForUpdates: the await of getEvents resumes
TickEvents(k, outcomes) ==
    /\ effects = <<>>
    /\ calls[k].kind = "tickEvents"
    /\ \E s \in Answers(k) :
       LET r == fetchWithRetry(outcomes, 0) IN
       /\ feedEvents' = CachedEvents(r, getEvents(s))
       /\ feedLast' = [step |-> "tickEvents", ok |-> r.ok, fetched |-> ""]
       /\ IF r.ok /\ mounted THEN SetEvents(fireWarnings(getEvents(s))) ELSE EngineIdle
    /\ calls' = RemoveAt(calls, k)
    /\ UNCHANGED <<loading, error, lastHash, source, mounted>>

\* the source publishes its next state
SourceChanges ==
    /\ source < Len(SourceHistory)
    /\ source' = source + 1
    /\ feedLast' = NoFeedLast
    /\ EngineIdle
    /\ UNCHANGED <<feedEvents, loading, error, lastHash, calls, mounted>>

FeedNext ==
    \/ \E k \in 1..Len(calls) : \E outcomes \in Outcomes : InitLoad(k, outcomes) /\ BenchIdle
    \/ \E k \in 1..Len(calls) : \E outcomes \in Outcomes : InitDelta(k, outcomes) /\ BenchIdle
    \/ PollTick /\ BenchIdle
    \/ \E k \in 1..Len(calls) : \E outcomes \in Outcomes : TickDelta(k, outcomes) /\ BenchIdle
    \/ \E k \in 1..Len(calls) : \E outcomes \in Outcomes : TickEvents(k, outcomes) /\ BenchIdle
    \/ SourceChanges /\ BenchIdle
    \/ \E i \in 1..Len(timers) : ReadyFires(i) /\ EngineStep /\ BenchIdle
    \/ InitEffect /\ EngineStep /\ BenchIdle
    \/ ChangeDetectionEffect /\ EngineStep /\ BenchIdle
    \/ ProximityEffect /\ EngineStep /\ BenchIdle
    \/ \E i \in 1..Len(timers) : addAlert(i) /\ EngineStep /\ BenchIdle
    \/ \E i \in 1..Len(timers) : AutoDismissFires(i) /\ EngineStep /\ BenchIdle
    \/ \E id \in 1..(nextAlertId - 1) : dismissAlert(id) /\ EngineStep /\ BenchIdle

FeedSpec == FeedInit /\ [][FeedNext]_vars

\* the event loop resumes every await whose fetch has ended, fires the interval,
\* runs every pending effect and every timer that is due
FeedFairness ==
    /\ WF_vars(\E k \in 1..Len(calls) : \E outcomes \in Outcomes : InitLoad(k, outcomes) /\ BenchIdle)
    /\ WF_vars(\E k \in 1..Len(calls) : \E outcomes \in Outcomes : InitDelta(k, outcomes) /\ BenchIdle)
    /\ WF_vars(PollTick /\ BenchIdle)
    /\ WF_vars(\E k \in 1..Len(calls) : \E outcomes \in Outcomes : TickDelta(k, outcomes) /\ BenchIdle)
    /\ WF_vars(\E k \in 1..Len(calls) : \E outcomes \in Outcomes : TickEvents(k, outcomes) /\ BenchIdle)
    /\ WF_vars(\E i \in 1..Len(timers) : ReadyFires(i) /\ EngineStep /\ BenchIdle)
    /\ WF_vars(InitEffect /\ EngineStep /\ BenchIdle)
    /\ WF_vars(ChangeDetectionEffect /\ EngineStep /\ BenchIdle)
    /\ WF_vars(ProximityEffect /\ EngineStep /\ BenchIdle)
    /\ WF_vars(\E i \in 1..Len(timers) : addAlert(i) /\ EngineStep /\ BenchIdle)
    /\ WF_vars(\E i \in 1..Len(timers) : AutoDismissFires(i) /\ EngineStep /\ BenchIdle)

FairFeedSpec == FeedSpec /\ FeedFairness

(***************************************************************************)
(* The stop of the periodic driver (StopSpec): the component that calls    *)
(* the two hooks is unmounted.  React runs the cleanup of the poll effect, *)
(* which clears the interval; no other cleanup exists, so the awaits of    *)
(* init and checkForUpdates and the setTimeout callbacks of useAlerts stay *)
(* pending and run on.  React drops the state updates they make.           *)
(***************************************************************************)
Unmount ==
    /\ mounted
    /\ effects = <<>>
    /\ mounted' = FALSE
    /\ feedLast' = NoFeedLast
    /\ EngineIdle
    /\ UNCHANGED <<feedEvents, loading, error, lastHash, calls, source>>

\* a setTimeout callback of useAlerts runs after the unmount: its state update
\* is dropped; addAlert still makes its alert and registers the auto-dismiss
\* timer of it
StaleTimerFires(i) ==
    /\ ~mounted
    /\ CanFire(i)
    /\ IF timers[i].kind = "emit"
       THEN LET alert == timers[i].alert[1]
                newAlert == [id |-> nextAlertId, type |-> alert.type,
                             severity |-> alert.severity, title |-> alert.title,
                             eventId |-> alert.eventId, timestamp |-> timers[i].at,
                             dismissed |-> FALSE]
            IN  /\ timers' = RemoveAt(timers, i) \o AutoDismiss(newAlert)
                /\ nextAlertId' = nextAlertId + 1
       ELSE /\ timers' = RemoveAt(timers, i)
            /\ UNCHANGED nextAlertId
    /\ UNCHANGED <<events, userLocation, activeAlerts, isReady, hasInitialized,
                   previousEvents, previousNearest, effects, ticks, replay>>
    /\ last' = NoLast

StopNext ==
    \/ \E k \in 1..Len(calls) : \E outcomes \in Outcomes : InitLoad(k, outcomes) /\ BenchIdle
    \/ \E k \in 1..Len(calls) : \E outcomes \in Outcomes : InitDelta(k, outcomes) /\ BenchIdle
    \/ PollTick /\ BenchIdle
    \/ \E k \in 1..Len(calls) : \E outcomes \in Outcomes : TickDelta(k, outcomes) /\ BenchIdle
    \/ \E k \in 1..Len(calls) : \E outcomes \in Outcomes : TickEvents(k, outcomes) /\ BenchIdle
    \/ SourceChanges /\ BenchIdle
    \/ \E i \in 1..Len(timers) : mounted /\ ReadyFires(i) /\ EngineStep /\ BenchIdle
    \/ mounted /\ InitEffect /\ EngineStep /\ BenchIdle
    \/ mounted /\ ChangeDetectionEffect /\ EngineStep /\ BenchIdle
    \/ mounted /\ ProximityEffect /\ EngineStep /\ BenchIdle
    \/ \E i \in 1..Len(timers) : mounted /\ addAlert(i) /\ EngineStep /\ BenchIdle
    \/ \E i \in 1..Len(timers) : mounted /\ AutoDismissFires(i) /\ EngineStep /\ BenchIdle
    \/ \E id \in 1..(nextAlertId - 1) : mounted /\ dismissAlert(id) /\ EngineStep /\ BenchIdle
    \/ Unmount /\ BenchIdle
    \/ \E i \in 1..Len(timers) : StaleTimerFires(i) /\ EngineStep /\ BenchIdle

StopSpec == FeedInit /\ [][StopNext]_vars

(***************************************************************************)
(* One call of fetchWithRetry followed attempt by attempt (RetrySpec).     *)
(* Time is in milliseconds and moves when an attempt settles or the        *)
(* backoff timer fires.  An entry of fetchLog is one fetch(url): `sent` is *)
(* the time of the request, `settled` is <<>> while it is in flight, then  *)
(* <<[at, status]>>; status 0 stands for a rejected fetch (network error). *)
(***************************************************************************)
BACKOFF_UNIT == 1000

\* how an attempt can settle: a rejection or a response with one of these
\* HTTP statuses, after one of these latencies; a timer fires on time or late
NetworkError == 0
Statuses == {NetworkError, 200, 204, 304, 404, 500, 503}
Latencies == {40, 1500}
TimerLag == {0, 15}

\* mutant of ResponseOk: only status 200 counts
ResponseOk_Only200(status) == status = 200

\* response.ok of the Fetch API, for a fetch that resolved
ResponseOk(status) == status >= 200 /\ status <= 299

\* mutant of isLastAttempt: no attempt is the last one
isLastAttempt_Never(i) == FALSE

\* const isLastAttempt = i === retries - 1
isLastAttempt(i) == i = RETRIES - 1

\* mutant of Backoff: the same delay after every failure
Backoff_Constant(i) == BACKOFF_UNIT

\* the delay of setTimeout(resolve, 1000 * (i + 1))
Backoff(i) == BACKOFF_UNIT * (i + 1)

RetryInit == EngineInit /\ FeedParked /\ BenchParked

\* fetchWithRetry(url) is called: the loop is entered with i = 0 and the first
\* fetch(url) is sent
CallFetch ==
    /\ fetchPhase = "idle"
    /\ UNCHANGED <<fetchClock, fetchWake>>
    /\ fetchIndex' = 0
    /\ IF 0 < RETRIES
       THEN /\ fetchPhase' = "fetching"
            /\ fetchLog' = <<[sent |-> fetchClock', settled |-> <<>>]>>
            /\ fetchResult' = <<>>
       ELSE /\ fetchPhase' = "thrown"
            /\ fetchLog' = <<>>
            /\ fetchResult' = <<[kind |-> "error", attempt |-> 0]>>

\* `await fetch(url)` settles and the loop body runs on: the response is
\* returned when it is ok; otherwise the catch block throws the error of the
\* last attempt or starts the backoff timer
AttemptSettles(latency, status) ==
    /\ fetchPhase = "fetching"
    /\ fetchClock' = fetchClock + latency
    /\ fetchLog' = [fetchLog EXCEPT ![Len(fetchLog)].settled =
                       <<[at |-> fetchClock', status |-> status]>>]
    /\ IF status # NetworkError /\ ResponseOk(status)
       THEN /\ fetchPhase' = "returned"
            /\ fetchResult' = <<[kind |-> "response", attempt |-> fetchIndex + 1]>>
            /\ UNCHANGED fetchWake
       ELSE IF isLastAttempt(fetchIndex)
       THEN /\ fetchPhase' = "thrown"
            /\ fetchResult' = <<[kind |-> "error", attempt |-> fetchIndex + 1]>>
            /\ UNCHANGED fetchWake
       ELSE /\ fetchPhase' = "sleeping"
            /\ fetchWake' = <<fetchClock' + Backoff(fetchIndex)>>
            /\ UNCHANGED fetchResult
    /\ UNCHANGED fetchIndex

\* the backoff timer fires: i++ and the next turn of the loop sends the next
\* fetch(url); after the loop, `throw new Error('Fetch failed after retries')`
BackoffElapses(lag) ==
    /\ fetchPhase = "sleeping"
    /\ fetchClock' = fetchWake[1] + lag
    /\ fetchWake' = <<>>
    /\ fetchIndex' = fetchIndex + 1
    /\ IF fetchIndex' < RETRIES
       THEN /\ fetchPhase' = "fetching"
            /\ fetchLog' = Append(fetchLog, [sent |-> fetchClock', settled |-> <<>>])
            /\ UNCHANGED fetchResult
       ELSE /\ fetchPhase' = "thrown"
            /\ fetchResult' = <<[kind |-> "error", attempt |-> 0]>>
            /\ UNCHANGED fetchLog

\* nothing else runs beside the call
RestIdle == EngineIdle /\ FeedIdle /\ UNCHANGED pureVars

RetryNext ==
    \/ CallFetch /\ RestIdle
    \/ \E latency \in Latencies : \E status \in Statuses :
          AttemptSettles(latency, status) /\ RestIdle
    \/ \E lag \in TimerLag : BackoffElapses(lag) /\ RestIdle

RetrySpec == RetryInit /\ [][RetryNext]_vars

\* every request is answered or fails, and the event loop fires the timer
RetryFairness ==
    /\ WF_vars(CallFetch /\ RestIdle)
    /\ WF_vars(\E latency \in Latencies : \E status \in Statuses :
                  AttemptSettles(latency, status) /\ RestIdle)
    /\ WF_vars(\E lag \in TimerLag : BackoffElapses(lag) /\ RestIdle)

FairRetrySpec == RetrySpec /\ RetryFairness

(***************************************************************************)
(* The aggregate report (geo-utils).  Areas are in km2 of the plane of the *)
(* model (the surveyor's formula on the closed ring); the rings of the     *)
(* catalogue have whole areas.  The percentages of the report are the four *)
(* areas over the area of the state and are left out.                      *)
(***************************************************************************)
\* calculatePolygonAreaKm2: 0 for fewer than 3 vertices
calculatePolygonAreaKm2(coords) ==
    IF coords = <<>> \/ Len(coords) < 3 THEN 0
    ELSE LET ring == closedCoords(coords)
             RECURSIVE Twice(_)
             Twice(i) ==
                 IF i >= Len(ring) THEN 0
                 ELSE ring[i][1] * ring[i + 1][2] - ring[i + 1][1] * ring[i][2]
                      + Twice(i + 1)
         IN Abs(Twice(1)) \div 2

\* mutant of TierOf: "leave" is looked for before "leave immediately"
TierOf_LeaveFirst(action) ==
    LET text == IF action = <<>> THEN <<>> ELSE toLowerCase(action) IN
    IF includes(text, SHELTER) THEN "shelter"
    ELSE IF includes(text, LEAVE) THEN "leave"
    ELSE IF includes(text, LEAVE_IMMEDIATELY) THEN "leaveImmediately"
    ELSE "none"

\* the tier an event's area is added to: event.action?.toLowerCase() || ''
\* and the chain of includes tests of the forEach body
TierOf(action) ==
    LET text == IF action = <<>> THEN <<>> ELSE toLowerCase(action) IN
    IF includes(text, SHELTER) THEN "shelter"
    ELSE IF includes(text, LEAVE_IMMEDIATELY) THEN "leaveImmediately"
    ELSE IF includes(text, LEAVE) THEN "leave"
    ELSE "none"

\* calculateFireWarningAreas: an event without polygon is skipped
calculateFireWarningAreas(evs) ==
    LET RECURSIVE Acc(_, _)
        Acc(i, tier) ==
            IF i > Len(evs) THEN 0
            ELSE (IF PolygonOf(evs[i]) # <<>> /\ TierOf(ActionOf(evs[i])) = tier
                  THEN calculatePolygonAreaKm2(PolygonOf(evs[i]))
                  ELSE 0) + Acc(i + 1, tier)
        shelterAreaKm2 == Acc(1, "shelter")
        leaveImmediatelyAreaKm2 == Acc(1, "leaveImmediately")
        leaveAreaKm2 == Acc(1, "leave")
    IN [ shelterAreaKm2 |-> shelterAreaKm2,
         leaveImmediatelyAreaKm2 |-> leaveImmediatelyAreaKm2,
         leaveAreaKm2 |-> leaveAreaKm2,
         totalWarningAreaKm2 |-> shelterAreaKm2 + leaveImmediatelyAreaKm2 + leaveAreaKm2 ]

(***************************************************************************)
(* Geometry extraction (vic-emergency).  A property of the feed's JSON is  *)
(* <<>> when it is absent and <<v>> when it has the value v.  A geometry   *)
(* is [type, coordinates, geometries]; a feature is [geometry].  The       *)
(* outcome of an extraction is [threw, value]: threw when the code raises  *)
(* a TypeError, value <<>> for null.                                       *)
(***************************************************************************)
\* the geometries of a feature: a Point with or without coordinates, a Polygon
\* without coordinates, with an empty coordinates array, with a ring of three
\* and of two vertices, a LineString, and the collections of up to two of them
\* (with or without their geometries array)
Geometries ==
    LET Leaf(type, coordinates) ==
            [type |-> type, coordinates |-> coordinates, geometries |-> <<>>]
        Leaves ==
            { Leaf("Point", <<>>), Leaf("Point", << <<1, 1>> >>),
              Leaf("Polygon", <<>>), Leaf("Polygon", << <<>> >>),
              Leaf("Polygon", << << << <<0,0>>, <<2,0>>, <<2,2>> >> >> >>),
              Leaf("Polygon", << << << <<5,1>>, <<7,1>> >> >> >>),
              Leaf("LineString", << << <<0,0>>, <<1,1>>, <<2,2>> >> >>) }
    IN Leaves \cup
       { [type |-> "GeometryCollection", coordinates |-> <<>>, geometries |-> g] :
            g \in {<<>>} \cup { <<list>> : list \in UNION { [1..n -> Leaves] : n \in 0..2 } } }

\* the features of a response: with a geometry, and without one
Features == [geometry : {<<>>} \cup { <<g>> : g \in Geometries }]

Threw == [threw |-> TRUE, value |-> <<>>]
Returned(value) == [threw |-> FALSE, value |-> value]

\* geometries.find(g => g.type === type): <<>> when there is none
Find(geometries, type) ==
    IF \E i \in 1..Len(geometries) : geometries[i].type = type
    THEN LET i == CHOOSE i \in 1..Len(geometries) :
                      /\ geometries[i].type = type
                      /\ \A j \in 1..(i - 1) : geometries[j].type # type
         IN <<geometries[i]>>
    ELSE <<>>

\* extractCoordinates: geometry.type of a feature without geometry raises
extractCoordinates(feature) ==
    IF feature.geometry = <<>> THEN Threw
    ELSE LET geometry == feature.geometry[1] IN
         IF geometry.type = "Point" /\ geometry.coordinates # <<>>
         THEN Returned(geometry.coordinates)
         ELSE IF geometry.type = "GeometryCollection" /\ geometry.geometries # <<>>
         THEN LET point == Find(geometry.geometries[1], "Point") IN
              IF point # <<>> /\ point[1].coordinates # <<>>
              THEN Returned(point[1].coordinates)
              ELSE Returned(<<>>)
         ELSE Returned(<<>>)

\* extractPolygon: the first ring of the coordinates; ring.map of an empty
\* coordinates array raises
extractPolygon(feature) ==
    IF feature.geometry = <<>> THEN Threw
    ELSE LET geometry == feature.geometry[1]
             Ring(coordinates) ==
                 IF coordinates[1] = <<>> THEN Threw ELSE Returned(<<coordinates[1][1]>>)
         IN IF geometry.type = "Polygon" /\ geometry.coordinates # <<>>
            THEN Ring(geometry.coordinates)
            ELSE IF geometry.type = "GeometryCollection" /\ geometry.geometries # <<>>
            THEN LET polygon == Find(geometry.geometries[1], "Polygon") IN
                 IF polygon # <<>> /\ polygon[1].coordinates # <<>>
                 THEN Ring(polygon[1].coordinates)
                 ELSE Returned(<<>>)
            ELSE Returned(<<>>)

\* data.features.map(...) of getEvents: an exception of either extraction
\* rejects the promise of getEvents
mapFeatures(features) ==
    IF \E i \in 1..Len(features) :
           extractCoordinates(features[i]).threw \/ extractPolygon(features[i]).threw
    THEN [ok |-> FALSE, events |-> <<>>]
    ELSE [ok |-> TRUE,
          events |-> [i \in 1..Len(features) |->
                        [coordinates |-> extractCoordinates(features[i]).value,
                         polygon |-> extractPolygon(features[i]).value]]]

(***************************************************************************)
(* The pure functions applied on their own (PureSpec): the arguments of    *)
(* one application are drawn in the initial state, the step applies the    *)
(* function to them.                                                       *)
(***************************************************************************)
\* const userNearestDanger of App: no location, no nearest danger
userNearestDanger(location, evs) ==
    IF location = <<>> THEN <<>> ELSE getNearestDanger(location, evs)

\* the hazard lists: versions of hazards 1 and 2 (one of them without polygon),
\* the triangle and the two-vertex polygon, in any order and number
HazardLists ==
    UNION { [1..n -> { [id |-> 1, updated |-> "t1"], [id |-> 1, updated |-> "t2"],
                       [id |-> 2, updated |-> "t1"], [id |-> 2, updated |-> "t2"],
                       [id |-> 2, updated |-> ""], Triangle, Segment }] :
            n \in 0..MaxHazards }

\* the rings: lists of vertices of a 3 x 3 grid, degenerate ones included; the
\* points: that grid and a column outside it
Rings == UNION { [1..n -> (0..2) \X (0..2)] : n \in 2..MaxRing }
Points == (0..3) \X (0..2)

\* the action texts: words joined by single spaces
Words ==
    { <<"S","H","E","L","T","E","R">>, <<"L","e","a","v","e">>, <<"L","E","A","V","E">>,
      <<"I","m","m","e","d","i","a","t","e","l","y">>, <<"L","e","a","v","i","n","g">>,
      <<"W","a","t","c","h">> }

RECURSIVE Join(_)
Join(words) ==
    IF words = <<>> THEN <<>>
    ELSE IF Len(words) = 1 THEN words[1]
    ELSE words[1] \o <<" ">> \o Join(Tail(words))

PureArgs ==
    [fn : {"calculateProximity"}, location : Locations, events : HazardLists]
    \cup [fn : {"userNearestDanger"}, location : Locations \cup {<<>>}, events : HazardLists]
    \cup [fn : {"distanceToPolygon"}, coords : Points, polygonCoords : Rings]
    \cup [fn : {"calculateFireWarningAreas"}, events : HazardLists]
    \cup [fn : {"mapFeatures"}, features : UNION { [1..n -> Features] : n \in 1..2 }]
    \cup { [fn |-> "getActionPriority", words |-> words, action |-> Join(words)] :
              words \in UNION { [1..n -> Words] : n \in 0..MaxWords } }

PureInit ==
    /\ EngineInit
    /\ FeedParked
    /\ fetchPhase = "idle"
    /\ fetchIndex = 0
    /\ fetchClock = 0
    /\ fetchWake = <<>>
    /\ fetchLog = <<>>
    /\ fetchResult = <<>>
    /\ arg \in PureArgs
    /\ ret = <<>>

\* one application; nothing else runs beside it
Apply(fn, value) ==
    /\ arg.fn = fn
    /\ ret = <<>>
    /\ ret' = <<value>>
    /\ UNCHANGED <<arg, retryVars>>
    /\ EngineIdle
    /\ FeedIdle

PureNext ==
    \/ arg.fn = "calculateProximity"
       /\ Apply("calculateProximity", calculateProximity(arg.location, arg.events))
    \/ arg.fn = "userNearestDanger"
       /\ Apply("userNearestDanger", userNearestDanger(arg.location, arg.events))
    \/ arg.fn = "distanceToPolygon"
       /\ Apply("distanceToPolygon", distanceToPolygon(arg.coords, arg.polygonCoords))
    \/ arg.fn = "getActionPriority"
       /\ Apply("getActionPriority", getActionPriority(arg.action))
    \/ arg.fn = "calculateFireWarningAreas"
       /\ Apply("calculateFireWarningAreas", calculateFireWarningAreas(arg.events))
    \/ arg.fn = "mapFeatures"
       /\ Apply("mapFeatures", mapFeatures(arg.features))

PureSpec == PureInit /\ [][PureNext]_vars

(***************************************************************************)
(* Vocabulary of the properties.  The conditions of the specification are  *)
(* written out here on their own, not through the operators of the         *)
(* effects.                                                                *)
(***************************************************************************)
ChangeRan == last.effect = "change" /\ last.ran
ProximityRan == last.effect = "proximity" /\ last.ran

\* the emission timers registered by the effect that just ran are the alerts
\* recorded in last.scheduled, at the end of the timer list
ScheduledTail ==
    LET n == Len(last.scheduled) IN
    /\ Len(timers) >= n
    /\ SubSeq(timers, Len(timers) - n + 1, Len(timers)) = Schedule(last.scheduled)

\* what an alert says, without its title
Brief(a) == [type |-> a.type, severity |-> a.severity, eventId |-> a.eventId]

\* the alerts the last effect scheduled for hazard id, in order
ScheduledFor(id) ==
    LET mine == SelectSeq(last.scheduled, LAMBDA a : a.eventId = id) IN
    [i \in 1..Len(mine) |-> Brief(mine[i])]

\* the alerts the last effect scheduled under a title, in order
ScheduledAs(title) ==
    LET those == SelectSeq(last.scheduled, LAMBDA a : a.title = title) IN
    [i \in 1..Len(those) |-> Brief(those[i])]

\* the action text of e contains the (lower-case) word, case-insensitively
Mentions(e, word) == includes(toLowerCase(ActionOf(e)), word)

Emitting == \E i \in 1..Len(timers) : timers[i].kind = "emit"

\* the nearest result of the pair the proximity watch just evaluated, and the
\* snapshot it found stored
Cur == getNearestDanger(userLocation, events)[1]
Prev == last.previousNearest
NoPrev == Prev = <<>>

EnteredCondition == Cur.isInside /\ (NoPrev \/ ~Prev[1].isInside)
CrossedCondition ==
    /\ ~Cur.isInside
    /\ Cur.distance <= 2
    /\ (NoPrev \/ Prev[1].distance > 2)
NewNearestCondition == (NoPrev \/ Prev[1].eventId # Cur.event) /\ Cur.distance <= 5

EnteredTitle == "YOU ARE IN A DANGER ZONE"
CrossedTitle == "Danger Zone Very Close"
NewNearbyTitle == "New Nearby Warning"

(***************************************************************************)
(* C1                                                                      *)
(***************************************************************************)
\* C1: while the engine is not ready the alert list is empty and no alert
\* emission is scheduled, whatever hazard sets and locations were delivered.
C1_NotReadyNoAlerts ==
    ~isReady => (activeAlerts = <<>> /\ ~Emitting /\ nextAlertId = 1)

\* not ready, seeded, and a later delivery holds an actionable hazard that
\* differs from what the seed stored
C1_Witness ==
    /\ ~isReady /\ hasInitialized /\ effects = <<>> /\ ticks >= 2
    /\ userLocation # <<>>
    /\ \E i \in 1..Len(events) :
          /\ Mentions(events[i], LEAVE)
          /\ MapGet(previousEvents, events[i].id) # events[i].updated

(***************************************************************************)
(* C2                                                                      *)
(***************************************************************************)
\* C2: an evaluation that replays the (hazard set, location) pair evaluated
\* just before it, once ready, schedules no alert.
C2_ReplayEmitsNothing ==
    (last.ran /\ last.replay /\ last.effect \in {"change", "proximity"})
        => last.scheduled = <<>>

(***************************************************************************)
(* C3                                                                      *)
(***************************************************************************)
\* C3: once ready, a hazard whose id is not in memory gets exactly one
\* new-warning alert naming it when its action text contains "shelter"
\* (critical) or "leave" (warning), and no alert otherwise.
C3_NewHazardAlert ==
    ChangeRan =>
        /\ ScheduledTail
        /\ \A i \in 1..Len(events) :
              LET e == events[i] IN
              e.id \notin DOMAIN last.previousEvents =>
                  ScheduledFor(e.id) =
                      IF Mentions(e, SHELTER)
                      THEN <<[type |-> "new-warning", severity |-> "critical", eventId |-> e.id]>>
                      ELSE IF Mentions(e, LEAVE)
                      THEN <<[type |-> "new-warning", severity |-> "warning", eventId |-> e.id]>>
                      ELSE <<>>

\* a hazard unknown to memory with a "leave" action got its warning
C3_Witness ==
    /\ ChangeRan
    /\ \E i \in 1..Len(events) :
          /\ events[i].id \notin DOMAIN last.previousEvents
          /\ Mentions(events[i], LEAVE) /\ ~Mentions(events[i], SHELTER)
          /\ ScheduledFor(events[i].id) =
                <<[type |-> "new-warning", severity |-> "warning", eventId |-> events[i].id]>>

(***************************************************************************)
(* C4                                                                      *)
(***************************************************************************)
\* C4: once ready, a hazard whose id is in memory gets exactly one zone-change
\* info alert when its `updated` fingerprint differs from the stored one,
\* whatever its action text, and no alert when the fingerprint is the same.
C4_UpdatedHazardAlert ==
    ChangeRan =>
        \A i \in 1..Len(events) :
            LET e == events[i] IN
            e.id \in DOMAIN last.previousEvents =>
                ScheduledFor(e.id) =
                    IF last.previousEvents[e.id] # e.updated
                    THEN <<[type |-> "zone-change", severity |-> "info", eventId |-> e.id]>>
                    ELSE <<>>

(***************************************************************************)
(* C5                                                                      *)
(***************************************************************************)
\* C5: after a change-detection evaluation, memory holds the current `updated`
\* fingerprint of every hazard of the evaluated set, alert or no alert.
C5_MemoryTracksSet ==
    ChangeRan =>
        \A i \in 1..Len(events) :
            /\ events[i].id \in DOMAIN previousEvents
            /\ previousEvents[events[i].id] = events[i].updated

\* a hazard unknown to memory without actionable text: no alert, yet remembered
C5_Witness ==
    /\ ChangeRan
    /\ \E i \in 1..Len(events) :
          /\ events[i].id \notin DOMAIN last.previousEvents
          /\ ~Mentions(events[i], SHELTER) /\ ~Mentions(events[i], LEAVE)
          /\ ScheduledFor(events[i].id) = <<>>
          /\ MapGet(previousEvents, events[i].id) = events[i].updated

(***************************************************************************)
(* C6                                                                      *)
(***************************************************************************)
\* C6: a proximity evaluation schedules at most one alert; when the
\* entered-zone condition holds it is not a crossed-critical or new-nearby
\* alert, and when the crossed-critical condition holds it is not a new-nearby
\* alert.
C6_AtMostOneProximityAlert ==
    ProximityRan =>
        /\ ScheduledTail
        /\ Len(last.scheduled) <= 1
        /\ EnteredCondition =>
              (ScheduledAs(CrossedTitle) = <<>> /\ ScheduledAs(NewNearbyTitle) = <<>>)
        /\ CrossedCondition => ScheduledAs(NewNearbyTitle) = <<>>

\* entering a zone that is also a new nearest hazard within 2 km: one alert
C6_Witness ==
    /\ ProximityRan
    /\ EnteredCondition /\ NewNearestCondition
    /\ Cur.distance <= 2 /\ (NoPrev \/ Prev[1].distance > 2)
    /\ Len(last.scheduled) = 1
    /\ ScheduledAs(EnteredTitle) # <<>>

(***************************************************************************)
(* C7                                                                      *)
(***************************************************************************)
\* C7: a proximity evaluation schedules the critical entered-zone alert, for
\* the current nearest hazard, exactly when the nearest result is inside and
\* the stored snapshot is absent or not inside.
C7_EnteredZoneIff ==
    ProximityRan =>
        ScheduledAs(EnteredTitle) =
            IF EnteredCondition
            THEN <<[type |-> "proximity", severity |-> "critical", eventId |-> Cur.event]>>
            ELSE <<>>

\* the snapshot was outside, the location is now inside: the alert is scheduled
C7_Witness ==
    /\ ProximityRan
    /\ ~NoPrev /\ ~Prev[1].isInside /\ Cur.isInside
    /\ ScheduledAs(EnteredTitle) # <<>>

(***************************************************************************)
(* C8                                                                      *)
(***************************************************************************)
\* C8: with the location outside the nearest polygon, the critical
\* crossed-critical alert is scheduled exactly once on the evaluation where the
\* nearest distance is at most 2 km and the stored one (infinite when absent)
\* was above 2 km; it is not scheduled while the distance is above 2 km, nor
\* on a later evaluation that finds a stored distance of at most 2 km.
C8_CrossedCriticalOnce ==
    ProximityRan =>
        ScheduledAs(CrossedTitle) =
            IF CrossedCondition
            THEN <<[type |-> "proximity", severity |-> "critical", eventId |-> Cur.event]>>
            ELSE <<>>

\* the distance stays within 2 km, outside the polygon, after the crossing
\* alert fired: nothing is scheduled
C8_Witness ==
    /\ ProximityRan
    /\ ~NoPrev /\ ~Prev[1].isInside /\ Prev[1].distance <= 2
    /\ ~Cur.isInside /\ Cur.distance <= 2 /\ Cur.event = Prev[1].eventId
    /\ last.scheduled = <<>>
    /\ \/ \E i \in 1..Len(timers) :
             /\ timers[i].kind = "emit"
             /\ timers[i].alert[1].title = CrossedTitle
             /\ timers[i].alert[1].eventId = Cur.event
       \/ \E i \in 1..Len(activeAlerts) :
             /\ activeAlerts[i].title = CrossedTitle
             /\ activeAlerts[i].eventId = Cur.event

(***************************************************************************)
(* C9                                                                      *)
(***************************************************************************)
\* C9: when neither the entered-zone nor the crossed-critical condition holds,
\* the warning new-nearby alert is scheduled exactly when the nearest hazard's
\* id differs from the stored snapshot's (or none is stored) and the distance
\* is at most 5 km.
C9_NewNearbyIff ==
    (ProximityRan /\ ~EnteredCondition /\ ~CrossedCondition) =>
        ScheduledAs(NewNearbyTitle) =
            IF NewNearestCondition
            THEN <<[type |-> "proximity", severity |-> "warning", eventId |-> Cur.event]>>
            ELSE <<>>

\* another hazard became the nearest one, 5 km away
C9_Witness ==
    /\ ProximityRan /\ ~EnteredCondition /\ ~CrossedCondition
    /\ ~NoPrev /\ Prev[1].eventId # Cur.event /\ Cur.distance = 5
    /\ ScheduledAs(NewNearbyTitle) # <<>>

(***************************************************************************)
(* C10                                                                     *)
(***************************************************************************)
\* C10: after a proximity evaluation the stored snapshot is (hazard id,
\* distance, isInside) of the current nearest result, alert or no alert.
C10_SnapshotOverwritten ==
    ProximityRan =>
        previousNearest =
            <<[eventId |-> Cur.event, distance |-> Cur.distance, isInside |-> Cur.isInside]>>

\* no alert was scheduled and the snapshot changed all the same
C10_Witness ==
    /\ ProximityRan
    /\ last.scheduled = <<>>
    /\ ~NoPrev /\ previousNearest # Prev

(***************************************************************************)
(* C11                                                                     *)
(***************************************************************************)
InitRan == last.effect = "init" /\ last.ran
ReadyTimers == Cardinality({i \in 1..Len(timers) : timers[i].kind = "ready"})

\* C11: the seed happens on the first non-empty hazard set and only once (one
\* settle timer is ever started, and it finds memory untouched); it stores the
\* `updated` fingerprint of every hazard of the set and, when a location is
\* present and some hazard has a polygon, the nearest snapshot; it schedules
\* no alert; the engine is ready only after the seed.
C11_SeedOnce ==
    /\ (~hasInitialized /\ (effects = <<>> \/ Head(effects) # "init")) => Len(events) = 0
    /\ ~hasInitialized => (previousEvents = <<>> /\ previousNearest = <<>>)
    /\ ReadyTimers + (IF isReady THEN 1 ELSE 0) = (IF hasInitialized THEN 1 ELSE 0)
    /\ InitRan =>
          /\ Len(events) > 0
          /\ last.previousEvents = <<>> /\ last.previousNearest = <<>>
          /\ DOMAIN previousEvents = {events[i].id : i \in 1..Len(events)}
          /\ \A i \in 1..Len(events) : previousEvents[events[i].id] = events[i].updated
          /\ previousNearest =
                IF userLocation # <<>> /\ getNearestDanger(userLocation, events) # <<>>
                THEN <<[eventId |-> Cur.event, distance |-> Cur.distance,
                        isInside |-> Cur.isInside]>>
                ELSE <<>>
          /\ last.scheduled = <<>> /\ ~Emitting /\ activeAlerts = <<>>

\* the seed ran on a set of two hazards, with a location, after an earlier
\* delivery that could not seed
C11_Witness ==
    /\ InitRan /\ ticks >= 3
    /\ Len(events) = 2 /\ userLocation # <<>> /\ previousNearest # <<>>

(***************************************************************************)
(* C12                                                                     *)
(***************************************************************************)
\* the alert with the id is in the list and not dismissed
Shown(id) ==
    \E i \in 1..Len(activeAlerts) : activeAlerts[i].id = id /\ ~activeAlerts[i].dismissed

\* the alert with the id is in the list and dismissed
Hidden(id) ==
    \E i \in 1..Len(activeAlerts) : activeAlerts[i].id = id /\ activeAlerts[i].dismissed

Severity(id) ==
    LET i == CHOOSE i \in 1..Len(activeAlerts) : activeAlerts[i].id = id IN
    activeAlerts[i].severity

DismissPending(id) ==
    \E i \in 1..Len(timers) : timers[i].kind = "dismiss" /\ timers[i].id = id

\* C12: a step that flips a critical alert to dismissed is a call of
\* dismissAlert with the id of that alert; no timer does it.
C12_CriticalOnlyExplicit ==
    [][\A id \in 1..(nextAlertId - 1) :
          (Shown(id) /\ Severity(id) = "critical" /\ Hidden(id)')
              => dismissAlert(id)]_vars

\* every timer has fired: the critical alert is still shown, the other alert
\* is dismissed
C12_Witness ==
    /\ timers = <<>> /\ effects = <<>>
    /\ \E i, j \in 1..Len(activeAlerts) :
          /\ activeAlerts[i].severity = "critical" /\ ~activeAlerts[i].dismissed
          /\ activeAlerts[j].severity # "critical" /\ activeAlerts[j].dismissed

(***************************************************************************)
(* C13                                                                     *)
(***************************************************************************)
\* the ids an alert can get within the bounds: an evaluation schedules at most
\* two change alerts and one proximity alert
AlertIds == 1..(MaxAlerts + 3)

\* an info alert and a warning alert emitted at the same instant: while the
\* timer of the info alert is pending, so is the timer of the warning alert
InfoBeforeWarning ==
    \A i, j \in 1..Len(activeAlerts) :
        (/\ activeAlerts[i].severity = "info"
         /\ activeAlerts[j].severity = "warning"
         /\ activeAlerts[i].timestamp = activeAlerts[j].timestamp
         /\ DismissPending(activeAlerts[i].id))
            => DismissPending(activeAlerts[j].id)

\* C13: with the event loop running its timers, every info or warning alert
\* that is shown is eventually not shown any more, whatever the consumer does;
\* of an info and a warning alert emitted at the same instant, the info alert
\* is dismissed first.
C13_AutoDismissed ==
    /\ \A id \in AlertIds :
          (Shown(id) /\ Severity(id) # "critical") ~> ~Shown(id)
    /\ []InfoBeforeWarning

\* an info and a warning alert of one instant: the info alert was dismissed by
\* its timer, the timer of the warning alert is pending
C13_Witness ==
    \E i, j \in 1..Len(activeAlerts) :
        /\ activeAlerts[i].severity = "info" /\ activeAlerts[i].dismissed
        /\ activeAlerts[j].severity = "warning" /\ ~activeAlerts[j].dismissed
        /\ activeAlerts[i].timestamp = activeAlerts[j].timestamp
        /\ ~DismissPending(activeAlerts[i].id)
        /\ DismissPending(activeAlerts[j].id)

(***************************************************************************)
(* C14                                                                     *)
(***************************************************************************)
\* C14: the list holds at most 50 alerts; it holds the most recently emitted
\* ones, all of them while there are at most 50, newest first: the alert at
\* position i is the i-th last emitted one.
C14_NewestFifty ==
    /\ Len(activeAlerts) <= 50
    /\ Len(activeAlerts) = (IF nextAlertId - 1 < 50 THEN nextAlertId - 1 ELSE 50)
    /\ \A i \in 1..Len(activeAlerts) : activeAlerts[i].id = nextAlertId - i

\* three emissions onto a full list: the three oldest alerts are gone
C14_Witness ==
    /\ nextAlertId = 54
    /\ Len(activeAlerts) = 50
    /\ activeAlerts[1].id = 53 /\ activeAlerts[50].id = 4

(***************************************************************************)
(* C15                                                                     *)
(***************************************************************************)
InList(id) == \E i \in 1..Len(activeAlerts) : activeAlerts[i].id = id

\* the alert with the id, as it is in the list
AlertOf(id) ==
    activeAlerts[CHOOSE i \in 1..Len(activeAlerts) : activeAlerts[i].id = id]

\* C15: in every step, an alert of the list either stays in the list with the
\* same fields, `dismissed` apart, which does not go back to false; or it was
\* the last of a full list of 50 and the step prepends a new alert.
C15_OnlyDismissedChanges ==
    [][\A id \in 1..(nextAlertId - 1) :
          InList(id) =>
             \/ /\ InList(id)'
                /\ [AlertOf(id)' EXCEPT !.dismissed = FALSE]
                      = [AlertOf(id) EXCEPT !.dismissed = FALSE]
                /\ AlertOf(id).dismissed => AlertOf(id)'.dismissed
             \/ /\ ~InList(id)'
                /\ Len(activeAlerts) = 50 /\ activeAlerts[50].id = id
                /\ Len(activeAlerts') = 50 /\ activeAlerts'[1].id = nextAlertId
                /\ nextAlertId' = nextAlertId + 1]_vars

\* an alert was dropped at the cap while dismissed alerts stay in the list
C15_Witness ==
    /\ Len(activeAlerts) = 50 /\ activeAlerts[50].id > 1
    /\ \E i \in 1..Len(activeAlerts) :
          activeAlerts[i].dismissed /\ activeAlerts[i].severity = "critical"
    /\ \E i \in 1..Len(activeAlerts) :
          /\ activeAlerts[i].dismissed /\ activeAlerts[i].severity # "critical"
          /\ ~DismissPending(activeAlerts[i].id)

(***************************************************************************)
(* C16                                                                     *)
(***************************************************************************)
\* the alerts of a list that are not dismissed, in the order of the list
RECURSIVE NotDismissed(_)
NotDismissed(alerts) ==
    IF alerts = <<>> THEN <<>>
    ELSE (IF Head(alerts).dismissed THEN <<>> ELSE <<Head(alerts)>>)
         \o NotDismissed(Tail(alerts))

\* a list without the alert with the id
RECURSIVE Without(_, _)
Without(alerts, id) ==
    IF alerts = <<>> THEN <<>>
    ELSE (IF Head(alerts).id = id THEN <<>> ELSE <<Head(alerts)>>)
         \o Without(Tail(alerts), id)

\* C16: what the consumer sees is the list without its dismissed alerts, in
\* list order; dismissAlert(id) takes the alert with the id out of it and
\* changes no other alert of the list; when no shown alert has the id, what
\* the consumer sees stays as it is.
C16_DismissHidesOne ==
    /\ [](undismissedAlerts = NotDismissed(activeAlerts))
    /\ [][\A id \in DismissedIds :
             dismissAlert(id) =>
                /\ undismissedAlerts' = Without(undismissedAlerts, id)
                /\ Len(activeAlerts') = Len(activeAlerts)
                /\ \A i \in 1..Len(activeAlerts) :
                      activeAlerts[i].id # id => activeAlerts'[i] = activeAlerts[i]
                /\ ~Shown(id) => undismissedAlerts' = undismissedAlerts]_vars

\* a critical alert was dismissed by the consumer and is not shown; the
\* alerts around it are
C16_Witness ==
    /\ Len(activeAlerts) = 50
    /\ activeAlerts[1].severity = "critical" /\ activeAlerts[1].dismissed
    /\ Len(undismissedAlerts) = 49
    /\ undismissedAlerts[1] = activeAlerts[2]

(***************************************************************************)
(* C17                                                                     *)
(***************************************************************************)
\* the full hazard-set fetches in flight in poll ticks
FullFetches == Cardinality({k \in 1..Len(calls) : calls[k].kind = "tickEvents"})

\* the step resumes a poll tick with the version token it asked for
TokenArrives == feedLast'.step = "tickDelta" /\ feedLast'.ok /\ calls' # calls

\* C17: a poll tick that has fetched the version token issues the full
\* hazard-set fetch only if that token differs from the stored one; when it is
\* the same, no fetch is issued and the cached hazard set and the stored token
\* stay as they are.
C17_FetchOnlyOnChange ==
    [][TokenArrives =>
          /\ FullFetches' > FullFetches => <<feedLast'.fetched>> # lastHash
          /\ <<feedLast'.fetched>> = lastHash =>
                (FullFetches' = FullFetches /\ UNCHANGED <<feedEvents, lastHash>>)]_vars

(***************************************************************************)
(* C18                                                                     *)
(***************************************************************************)
\* the step of the feed hook that led here ended in a failed fetch
FetchFailed == feedLast.step # "none" /\ ~feedLast.ok

\* C18: after a failed fetch, of the token or of the hazard set, in the initial
\* load or in a poll tick, a poll tick eventually starts a version-token check;
\* the failing step leaves the cached hazard set as it is.
C18_DriverKeepsTicking ==
    /\ [](FetchFailed => <>(feedLast.step = "poll"))
    /\ [][(FetchFailed' /\ calls' # calls) => UNCHANGED feedEvents]_vars

(***************************************************************************)
(* C19                                                                     *)
(***************************************************************************)
\* C19: a step in which a fetch fails for good, in the initial load or in a
\* poll tick, leaves the cached hazard set, the hazard set handed to the alert
\* engine and the alert list as they are.
C19_FailureKeepsState ==
    [][(FetchFailed' /\ calls' # calls)
          => UNCHANGED <<feedEvents, events, activeAlerts>>]_vars

\* the full fetch of a poll tick failed while a hazard set is cached and an
\* alert is in the list
C19_Witness ==
    /\ feedLast.step = "tickEvents" /\ ~feedLast.ok
    /\ feedEvents # <<>> /\ events # <<>>
    /\ activeAlerts # <<>>

(***************************************************************************)
(* C20                                                                     *)
(***************************************************************************)
\* C20: after a fetch that failed for good, in the initial load or in a poll
\* tick, the error state of the feed hook is set.
C20_FailureSurfaced == FetchFailed => error # <<>>

(***************************************************************************)
(* Claims C21..C23: one call of fetchWithRetry.                            *)
(***************************************************************************)
\* attempt n has settled; it succeeded when fetch resolved with a 2xx response
\* and failed on a network error or any other response
Settled(n) == fetchLog[n].settled # <<>>
Succeeded(n) == Settled(n) /\ fetchLog[n].settled[1].status \in 200..299
Failed(n) == Settled(n) /\ fetchLog[n].settled[1].status \notin 200..299
SettledAt(n) == fetchLog[n].settled[1].at
Finished == fetchPhase \in {"returned", "thrown"}

\* C21: when the first k attempts of a call failed (k = 0, 1 or 2) and attempt
\* k + 1 succeeded, the call has returned the response of attempt k + 1 and
\* has thrown nothing
C21_SuccessWithinBudget ==
    \A k \in 0..2 :
        ( /\ Len(fetchLog) = k + 1
          /\ \A n \in 1..k : Failed(n)
          /\ Succeeded(k + 1) )
        => /\ fetchPhase = "returned"
           /\ fetchResult = <<[kind |-> "response", attempt |-> k + 1]>>

\* a network error, then a 503, then a 204: the call returned the third response
C21_Witness ==
    /\ Len(fetchLog) = 3
    /\ Failed(1) /\ fetchLog[1].settled[1].status = NetworkError
    /\ Failed(2) /\ fetchLog[2].settled[1].status = 503
    /\ Succeeded(3) /\ fetchLog[3].settled[1].status = 204
    /\ fetchPhase = "returned"
    /\ fetchResult = <<[kind |-> "response", attempt |-> 3]>>

\* what C22 says of every state of a call: there are at most 3 attempts; an
\* error is thrown only when 3 attempts were made and all failed, and it is the
\* error of the third; a failure of attempt 1 or 2 is followed by the backoff
\* or by the next attempt; a finished call holds the response of its last
\* attempt, which succeeded, or the error of its last attempt, which failed
SurfacedAfterBudget ==
    /\ Len(fetchLog) <= 3
    /\ fetchPhase = "thrown" =>
          /\ Len(fetchLog) = 3
          /\ \A n \in 1..3 : Failed(n)
          /\ fetchResult = <<[kind |-> "error", attempt |-> 3]>>
    /\ \A n \in 1..Len(fetchLog) :
          (Failed(n) /\ n < 3) => (n < Len(fetchLog) \/ fetchPhase = "sleeping")
    /\ Finished =>
          /\ fetchResult # <<>>
          /\ fetchResult[1].attempt = Len(fetchLog)
          /\ fetchResult[1].kind = "response" <=> Succeeded(Len(fetchLog))
          /\ fetchResult[1].kind = "error" <=> Failed(Len(fetchLog))

\* C22: a call surfaces a failure only after exactly 3 failed attempts, every
\* failure before the third is retried whatever its status, there is no 4th
\* attempt, and a call that was started ends with a response or with the error
\* of its last attempt
C22_RetriedToBudget ==
    /\ []SurfacedAfterBudget
    /\ (fetchPhase = "fetching") ~> Finished

\* a network error, a 404 and a 500: the call threw the error of attempt 3
C22_Witness ==
    /\ fetchPhase = "thrown"
    /\ Len(fetchLog) = 3
    /\ fetchLog[1].settled[1].status = NetworkError
    /\ fetchLog[2].settled[1].status = 404
    /\ fetchLog[3].settled[1].status = 500
    /\ fetchResult = <<[kind |-> "error", attempt |-> 3]>>

\* C23: at most one request is in flight; attempt n + 1 is sent only after
\* attempt n failed and n backoff units passed since then (the timer set after
\* failure n is due exactly n units later); no timer is set after the third
\* failure, the call throws at the instant of that failure
C23_SerialWithBackoff ==
    /\ Cardinality({n \in 1..Len(fetchLog) : ~Settled(n)}) <= 1
    /\ \A n \in 1..(Len(fetchLog) - 1) :
          /\ Failed(n)
          /\ fetchLog[n + 1].sent >= SettledAt(n) + n * BACKOFF_UNIT
    /\ fetchPhase = "sleeping" =>
          /\ Len(fetchLog) < 3
          /\ Failed(Len(fetchLog))
          /\ fetchWake = <<SettledAt(Len(fetchLog)) + Len(fetchLog) * BACKOFF_UNIT>>
    /\ fetchPhase # "sleeping" => fetchWake = <<>>
    /\ fetchPhase = "thrown" => fetchClock = SettledAt(Len(fetchLog))

\* three failures: the second request left 1 unit after the first failure, the
\* third a late timer after 2 units, and the call threw with the third failure
C23_Witness ==
    /\ fetchPhase = "thrown"
    /\ Len(fetchLog) = 3
    /\ fetchLog[2].sent = SettledAt(1) + BACKOFF_UNIT
    /\ fetchLog[3].sent > SettledAt(2) + 2 * BACKOFF_UNIT
    /\ fetchClock = SettledAt(3)

(***************************************************************************)
(* Claims C24..C26: order, overlap and stop of the fetches.                *)
(***************************************************************************)
\* the pending await k is one of a full hazard-set fetch (getEvents)
FullFetchPending(k) == calls[k].kind \in {"init", "tickEvents"}

\* C24: whenever a full hazard-set fetch is under way, the version-token check
\* of the same run (the initial run or a periodic tick) has returned before it
\* was issued
C24_TokenCheckFirst ==
    \A k \in 1..Len(calls) : FullFetchPending(k) => calls[k].delta # <<>>

\* C25: at no time are the fetch-and-update sequences of two poll ticks in
\* flight together
C25_TicksSerialized == TicksInFlight <= 1

\* a step issues a request: an await is added, or a pending await is replaced
\* by the await of the next request of its run
RequestIssued == Len(calls') >= Len(calls) /\ calls' # calls

\* the step sets the dismissed flag of the alerts with one id and changes
\* nothing else of the list
WholeFlip ==
    \E id \in 1..(nextAlertId - 1) :
        activeAlerts' = [i \in 1..Len(activeAlerts) |->
                            IF activeAlerts[i].id = id
                            THEN [activeAlerts[i] EXCEPT !.dismissed = TRUE]
                            ELSE activeAlerts[i]]

WellFormed(alerts) ==
    \A i \in 1..Len(alerts) :
        /\ DOMAIN alerts[i] = {"id", "type", "severity", "title", "eventId",
                               "timestamp", "dismissed"}
        /\ alerts[i].dismissed \in BOOLEAN
        /\ alerts[i].severity \in {"info", "warning", "critical"}

\* C26: once the driver is stopped, no step issues a version-token or
\* hazard-set request or writes the cached hazard set, and a step changes the
\* alert list only by a whole dismissed flip, leaving every alert well-formed
C26_CleanStop ==
    [][~mounted =>
          /\ ~RequestIssued
          /\ feedEvents' = feedEvents
          /\ activeAlerts' = activeAlerts \/ WholeFlip
          /\ WellFormed(activeAlerts')]_vars

(***************************************************************************)
(* Claims C27..C30: the pure functions.                                    *)
(***************************************************************************)
\* the function was applied and ret[1] is what it returned
Applied(fn) == arg.fn = fn /\ ret # <<>>

\* C27: the output of rank is sorted by (isInside descending, actionPriority
\* descending, distance ascending): no inside result comes after an outside
\* one, the priority does not increase among results of equal isInside, and
\* the distance does not decrease among results of equal isInside and priority
C27_RankSorted ==
    Applied("calculateProximity") =>
        \A i, j \in 1..Len(ret[1]) :
            i < j =>
                LET a == ret[1][i]
                    b == ret[1][j]
                IN  /\ b.isInside => a.isInside
                    /\ a.isInside = b.isInside => a.actionPriority >= b.actionPriority
                    /\ (a.isInside = b.isInside /\ a.actionPriority = b.actionPriority)
                          => a.distance <= b.distance

\* four results that every key of the order has moved: the hazard the location
\* is inside came last in the input and is first in the output although its
\* priority is the lowest, the outside results are in priority order, and the
\* two of priority 0 are in distance order, the reverse of the input
C27_Witness ==
    /\ Applied("calculateProximity")
    /\ arg.location = <<3, 1>>
    /\ arg.events = << [id |-> 2, updated |-> "t2"], [id |-> 2, updated |-> "t1"],
                       [id |-> 1, updated |-> "t1"], Triangle >>
    /\ Len(ret[1]) = 4
    /\ arg.events[4].id = ret[1][1].event
    /\ ret[1][1].isInside /\ ~ret[1][2].isInside
    /\ ret[1][1].actionPriority < ret[1][2].actionPriority
    /\ ret[1][2].actionPriority > ret[1][3].actionPriority
    /\ ret[1][3].actionPriority = ret[1][4].actionPriority
    /\ ret[1][3].distance < ret[1][4].distance
    /\ arg.events[1].id = ret[1][4].event

\* the hazard has a polygon of at least 3 vertices
HasRing(e) == Len(PolygonOf(e)) >= 3
Count(S) == Cardinality(S)

\* C28: nearest returns the first element of rank, and none exactly when no
\* hazard has a polygon of at least 3 vertices or the location is absent; rank
\* holds one result for each hazard with such a polygon and none for another
C28_NearestIsFirstOfRank ==
    /\ Applied("userNearestDanger") =>
          /\ ret[1] = <<>> <=>
                \/ arg.location = <<>>
                \/ \A i \in 1..Len(arg.events) : ~HasRing(arg.events[i])
          /\ ret[1] # <<>> =>
                ret[1][1] = calculateProximity(arg.location, arg.events)[1]
    /\ Applied("calculateProximity") =>
          \A id \in 1..6 :
              Count({i \in 1..Len(ret[1]) : ret[1][i].event = id})
                = Count({i \in 1..Len(arg.events) :
                            arg.events[i].id = id /\ HasRing(arg.events[i])})

\* the nearest danger of a list that starts with two hazards without a usable
\* polygon and whose last hazard, the triangle, is the nearest
C28_Witness ==
    /\ Applied("userNearestDanger")
    /\ arg.location = <<6, 1>>
    /\ arg.events = << Segment, [id |-> 2, updated |-> ""],
                       [id |-> 1, updated |-> "t2"], Triangle >>
    /\ ret[1] # <<>>
    /\ ret[1][1].event = Triangle.id
    /\ ret[1][1].isInside

\* what the words of a text say, whatever their case (the texts are words
\* joined by spaces)
SaysShelter(words) ==
    \E i \in 1..Len(words) : words[i] = <<"S","H","E","L","T","E","R">>
IsLeave(word) == word \in { <<"L","e","a","v","e">>, <<"L","E","A","V","E">> }
SaysLeave(words) == \E i \in 1..Len(words) : IsLeave(words[i])
SaysLeaveImmediately(words) ==
    \E i \in 1..(Len(words) - 1) :
        IsLeave(words[i]) /\ words[i + 1] = <<"I","m","m","e","d","i","a","t","e","l","y">>

\* C29: the classifier gives 3 to a text that contains "shelter", else 2 to one
\* that contains "leave immediately", else 1 to one that contains "leave",
\* else 0, whatever the case of the letters; an absent text gets 0
C29_ClassifierPrecedence ==
    Applied("getActionPriority") =>
        /\ ret[1] = IF SaysShelter(arg.words) THEN 3
                    ELSE IF SaysLeaveImmediately(arg.words) THEN 2
                    ELSE IF SaysLeave(arg.words) THEN 1
                    ELSE 0
        /\ arg.action = <<>> => ret[1] = 0

\* "LEAVE Immediately SHELTER" is classified 3
C29_Witness ==
    /\ Applied("getActionPriority")
    /\ arg.words = << <<"L","E","A","V","E">>,
                     <<"I","m","m","e","d","i","a","t","e","l","y">>,
                     <<"S","H","E","L","T","E","R">> >>
    /\ ret[1] = 3

\* C30: distanceToPolygon returns 0 for a ring of at least 3 vertices and a
\* point that pointInPolygon finds inside it, and every result of rank with
\* isInside set has distance 0
C30_InsideIsZero ==
    /\ ( /\ Applied("distanceToPolygon")
         /\ Len(arg.polygonCoords) >= 3
         /\ isPointInPolygon(arg.coords, arg.polygonCoords) )
       => ret[1] = 0
    /\ Applied("calculateProximity") =>
          \A i \in 1..Len(ret[1]) : ret[1][i].isInside => ret[1][i].distance = 0

\* the point (1, 1) inside the triangle (0, 0), (2, 1), (1, 2): it is no vertex
\* of the ring and its distance is 0
C30_Witness ==
    /\ Applied("distanceToPolygon")
    /\ arg.coords = <<1, 1>>
    /\ arg.polygonCoords = << <<0, 0>>, <<2, 1>>, <<1, 2>> >>
    /\ isPointInPolygon(arg.coords, arg.polygonCoords)
    /\ \A i \in 1..3 : arg.polygonCoords[i] # arg.coords
    /\ ret[1] = 0

\* the area of the hazards of a list whose polygon is present and whose action
\* the classifier gives priority p
RECURSIVE AreaOfPriority(_, _)
AreaOfPriority(evs, p) ==
    IF evs = <<>> THEN 0
    ELSE (IF PolygonOf(Head(evs)) # <<>> /\ getActionPriority(ActionOf(Head(evs))) = p
          THEN calculatePolygonAreaKm2(PolygonOf(Head(evs)))
          ELSE 0) + AreaOfPriority(Tail(evs), p)

\* C31: the report's shelter, leave-immediately and leave areas are the areas
\* of the polygon-bearing hazards of priority 3, 2 and 1; hazards of priority
\* 0 and hazards without polygon are in none of them; the total is the sum of
\* the three
C31_TierPartition ==
    Applied("calculateFireWarningAreas") =>
        /\ ret[1].shelterAreaKm2 = AreaOfPriority(arg.events, 3)
        /\ ret[1].leaveImmediatelyAreaKm2 = AreaOfPriority(arg.events, 2)
        /\ ret[1].leaveAreaKm2 = AreaOfPriority(arg.events, 1)
        /\ ret[1].totalWarningAreaKm2 =
              ret[1].shelterAreaKm2 + ret[1].leaveImmediatelyAreaKm2 + ret[1].leaveAreaKm2

\* a "Leave Now" triangle of 12 km2, a "Leave Immediately" square of 4 km2, a
\* "Watch and Act" square and a shelter warning without polygon
C31_Witness ==
    /\ Applied("calculateFireWarningAreas")
    /\ arg.events = << Triangle, [id |-> 1, updated |-> "t2"],
                       [id |-> 1, updated |-> "t1"], [id |-> 2, updated |-> ""] >>
    /\ ret[1] = [ shelterAreaKm2 |-> 0, leaveImmediatelyAreaKm2 |-> 4,
                  leaveAreaKm2 |-> 12, totalWarningAreaKm2 |-> 16 ]

\* C32: whatever the geometries of the features of a response (missing,
\* without coordinates, Point, Polygon or GeometryCollection in any mix), the
\* mapping of getEvents yields one hazard event per feature, with point and
\* polygon present or absent, and does not fail
C32_AnyGeometryYieldsEvents ==
    Applied("mapFeatures") =>
        /\ ret[1].ok
        /\ Len(ret[1].events) = Len(arg.features)

\* an evaluation of the proximity watch
ProximityEvaluation ==
    effects # <<>> /\ Head(effects) = "proximity" /\ effects' = Tail(effects)

\* C33: an evaluation of the proximity watch with the location absent or the
\* hazard set empty schedules and emits no alert and leaves the stored
\* snapshot as it is, and the nearest danger of that location and set is none
C33_InactiveWatch ==
    [][(ProximityEvaluation /\ (userLocation = <<>> \/ events = <<>>))
          => /\ UNCHANGED <<previousNearest, timers, activeAlerts>>
             /\ userNearestDanger(userLocation, events) = <<>>
             /\ (userLocation # <<>> => getNearestDanger(userLocation, events) = <<>>)]_vars

\* the watch was evaluated on an empty hazard set while a snapshot is stored
C33_Witness ==
    /\ last.effect = "proximity" /\ ~last.ran
    /\ isReady /\ userLocation # <<>> /\ events = <<>>
    /\ previousNearest # <<>>

\* C34: whenever no fetch is in flight and the stored token is the current
\* token of the source, the cached hazard set is the current hazard set of the
\* source
C34_TokenMatchesCache ==
    (calls = <<>> /\ lastHash = <<SourceHistory[source].token>>)
        => feedEvents = SourceHistory[source].events

\* C35: once the initial load of the hazard set has succeeded, poll ticks
\* start version-token checks again and again, whatever the outcome of the
\* initial token fetch
C35_TicksStartAndRecur ==
    []((feedLast.step = "init" /\ feedLast.ok) => []<>(feedLast.step = "poll"))

\* the state of the source whose hazard set a cache holds; 0 for the empty
\* cache of the start (the sets of SourceHistory differ from each other)
SnapshotOf(cache) ==
    IF \E s \in 1..Len(SourceHistory) : SourceHistory[s].events = cache
    THEN CHOOSE s \in 1..Len(SourceHistory) : SourceHistory[s].events = cache
    ELSE 0

\* C36: no step replaces the cached hazard set by the snapshot of an older
\* state of the source than the one it holds
C36_CacheNeverGoesBack ==
    [][SnapshotOf(feedEvents') >= SnapshotOf(feedEvents)]_vars

\* the alert with the id is critical and the consumer sees it
CriticalShown(id) == Shown(id) /\ AlertOf(id).severity = "critical"

\* C37 as stated: in every step a critical alert the consumer sees stays in
\* the visible list unless the step is dismissAlert with its id
C37_CriticalUntilDismissed ==
    [][\A id \in 1..(nextAlertId - 1) :
          CriticalShown(id) => (Shown(id)' \/ dismissAlert(id))]_vars

\* C37, amended: in every step a critical alert the consumer sees stays in
\* the visible list unless the step is dismissAlert with its id or the step
\* emits the 50th alert after it, which cuts it from the list
C37_CriticalUntilDismissedOrCut ==
    [][\A id \in 1..(nextAlertId - 1) :
          CriticalShown(id) =>
             \/ Shown(id)'
             \/ dismissAlert(id)
             \/ /\ nextAlertId' = nextAlertId + 1
                /\ nextAlertId - id = RETENTION]_vars

\* 49 alerts were emitted after a critical alert nobody dismissed, some of
\* them onto the full list: it is the last of the list and still shown
C37_Witness ==
    /\ Len(activeAlerts) = RETENTION
    /\ nextAlertId > RETENTION + 2
    /\ CriticalShown(nextAlertId - RETENTION)
    /\ activeAlerts[RETENTION].id = nextAlertId - RETENTION

\* C38: once ready, an evaluation schedules no new-warning alert for a hazard
\* whose id memory held before it, whatever the stored fingerprint
C38_KnownIdNeverNew ==
    ChangeRan =>
        \A i \in 1..Len(events) :
            events[i].id \in DOMAIN last.previousEvents =>
                \A j \in 1..Len(ScheduledFor(events[i].id)) :
                    ScheduledFor(events[i].id)[j].type # "new-warning"

\* the hazard set holds a version of hazard id whose action says "shelter" or
\* "leave"
Actionable(id) ==
    \E i \in 1..Len(events) :
        /\ events[i].id = id
        /\ (Mentions(events[i], SHELTER) \/ Mentions(events[i], LEAVE))

\* the list holds a new-warning alert for hazard id
NewWarningFor(id) ==
    \E i \in 1..Len(activeAlerts) :
        activeAlerts[i].type = "new-warning" /\ activeAlerts[i].eventId = id

\* the ready engine is about to evaluate its hazard set
EvaluationPending == isReady /\ \E k \in 1..Len(effects) : effects[k] = "change"

\* C39 as stated: the engine starts on the empty set of its first render, so
\* every hazard first appears after it started observing; every hazard with a
\* "shelter" or "leave" action in the hazard set eventually has a new-warning
\* alert
C39_EveryNewHazardAlerts ==
    \A id \in HazardIds : Actionable(id) ~> NewWarningFor(id)

\* C39, amended: a hazard with a "shelter" or "leave" action whose id memory
\* does not hold (it was not in the first non-empty set, which seeds memory,
\* nor evaluated since) and which is in the set the ready engine is about to
\* evaluate eventually has a new-warning alert
C39_NewAfterSeedAlerts ==
    \A id \in HazardIds :
        (EvaluationPending /\ Actionable(id) /\ id \notin DOMAIN previousEvents)
            ~> NewWarningFor(id)

\* hazard 1 was not in the set of the seed; its new-warning alert is in the list
C39_Witness ==
    /\ isReady /\ effects = <<>>
    /\ Actionable(1) /\ 1 \in DOMAIN previousEvents
    /\ NewWarningFor(1)
    /\ ~NewWarningFor(2) /\ 2 \in DOMAIN previousEvents

\* the hazards of the evaluated set that rank keeps, and the proximity of each
\* to the evaluated location
Ranked == { i \in 1..Len(events) : HasRing(events[i]) }
ProximityAt(i) == ProximityTable[userLocation, events[i]]

=============================================================================
